---- MODULE Spec2Model ----
(***************************************************************************)
(* Stage 1 of xdcrDiffer for one cluster: the stream callbacks of          *)
(* DcpHandler, the handler goroutine (processData / processMutation), the  *)
(* CheckpointManager (Start, HandleMutationEvent, updateSnapshot,          *)
(* saveCheckpoint) and the coordinator's wait in main.go.                  *)
(***************************************************************************)
EXTENDS Integers, Sequences, FiniteSets, TLC

(***************************************************************************)
(* Bounds of the model.  NumberOfVbuckets (1024 in the program) and        *)
(* MaxUint64 (2^64-1 in the program) are scaled down to the model's width. *)
(***************************************************************************)
NumberOfVbuckets == 2
MaxUint64 == 2
DataChanSize == 1
NumberOfBins == 2
BucketBufferCapacity == 1
NumberOfKeys == 1
MaxInterrupts == 2

Vbnos == 0 .. (NumberOfVbuckets - 1)
\* a file: absent, or its bytes
NoFile == [exists |-> FALSE, bytes |-> {}]
File(bytes) == [exists |-> TRUE, bytes |-> bytes]

(***************************************************************************)
(* encoding/json as used for the checkpoint document: map keys and uint64  *)
(* fields are written as decimal digit strings and parsed back.            *)
(***************************************************************************)
RECURSIVE Itoa(_)
Itoa(n) == IF n < 10 THEN <<n>> ELSE Append(Itoa(n \div 10), n % 10)

RECURSIVE Atoi(_)
Atoi(s) == IF Len(s) = 0 THEN 0
           ELSE 10 * Atoi(SubSeq(s, 1, Len(s) - 1)) + s[Len(s)]

Checkpoint(vbuuid, seqno, snapStart, snapEnd) ==
    [Vbuuid |-> vbuuid, Seqno |-> seqno,
     SnapshotStartSeqno |-> snapStart, SnapshotEndSeqno |-> snapEnd]

ZeroCheckpoint == Checkpoint(0, 0, 0, 0)

MarshalCheckpoint(c) ==
    [Vbuuid |-> Itoa(c.Vbuuid), Seqno |-> Itoa(c.Seqno),
     SnapshotStartSeqno |-> Itoa(c.SnapshotStartSeqno),
     SnapshotEndSeqno |-> Itoa(c.SnapshotEndSeqno)]

UnmarshalCheckpoint(j) ==
    Checkpoint(Atoi(j.Vbuuid), Atoi(j.Seqno),
               Atoi(j.SnapshotStartSeqno), Atoi(j.SnapshotEndSeqno))

\* json.Marshal(checkpointDoc): one member per map entry, keyed by the decimal vbno
Marshal(doc) ==
    {<<Itoa(vb), MarshalCheckpoint(doc[vb])>> : vb \in DOMAIN doc}

\* json.Unmarshal(checkpointFileBytes, checkpointDoc)
Unmarshal(bytes) ==
    [vb \in {Atoi(m[1]) : m \in bytes} |->
        UnmarshalCheckpoint((CHOOSE m \in bytes : Atoi(m[1]) = vb)[2])]

VARIABLES
    completeBySeqno,    \* dcpDriver.completeBySeqno
    filter,             \* TRUE iff dh.filter # nil
    newCheckpointFileName,  \* cm.newCheckpointFileName, "" when none was configured
    oldCheckpointFile,  \* content of the file at cm.oldCheckpointFileName, or NoFile
    cmState,            \* "new", "started", "failed" (Start returned err), "panicked"
    vbuuidMap,          \* cm.vbuuidMap
    endSeqnoMap,        \* cm.endSeqnoMap
    startVBTS,          \* cm.startVBTS
    seqnoMap,           \* cm.seqnoMap
    snapshots,          \* cm.snapshots
    streamOpen,         \* per vbucket: the stream is open
    streamSeqno,        \* per vbucket: last seqno the stream has delivered
    streamSnapEnd,      \* per vbucket: end of the snapshot being delivered
    dataChan,           \* dh.dataChan
    hpc,                \* position of the handler goroutine
    ev,                 \* processMutation's locals and what became of the event
    bucketMap,          \* dh.bucketMap: records handed to each bin writer
    buckets,            \* dh.bucketMap: the Bucket of each vbucket and bin
    vbCompleted,        \* driver: vbuckets marked completed
    completedCount,     \* driver: the count of completed vbuckets
    errChan,            \* shared error channel (capacity 1)
    mainPc,             \* coordinator: "waiting", or why stage 1 ended
    dhFin,              \* dh.finChan is closed
    processed,          \* per vbucket: HandleMutationEvent has run for a mutation of it
    cpPc,               \* position of the goroutine running saveCheckpoint
    cpVb,               \* saveCheckpoint's vbno
    cpSeqno,            \* saveCheckpoint's seqno
    cpDoc,              \* saveCheckpoint's checkpointDoc.Checkpoints
    cpAtRead,           \* history: per vbucket, what held when its seqno was read
    cpInstants,         \* history: the values seqnoMap has had since the save began
    savedDoc,           \* history: the document of the final checkpoint
    checkpointFile,     \* the final checkpoint file, cm.newCheckpointFileName
    periodicFile,       \* the file of the periodic checkpoint, <name>_<iter>
    cpPrevFile,         \* history: the file at cm.newCheckpointFileName before the final save
    driverState,        \* "running", "handlersStopped", "finalSave", "stopped"
    resumedFrom,        \* the saved document this run was resumed from
    dwPc,               \* position of the goroutine running DifferWorker.run
    sourceResults,      \* getResults' sourceResults
    targetResults,      \* getResults' targetResults
    callbackPc,         \* per side and key: position of its getCallbackFunc
    response,           \* per side and key: the (result, err) its callback got
    sourceResultCount,  \* dw.sourceResultCount
    targetResultCount,  \* dw.targetResultCount
    missingFromSource,  \* d.missingFromSource
    missingFromTarget,  \* d.missingFromTarget
    diff,               \* d.diff
    readAtDiff,         \* history: callbackPc when DifferWorker.diff read the results
    options,            \* the options main reads
    toolPc,             \* position of the main goroutine
    curState,           \* difftool.curState.state
    drv,                \* difftool.sourceDcpDriver and difftool.targetDcpDriver
    exitCode,           \* -1 while the process runs, then its exit code
    interrupts,         \* number of interrupts delivered
    ready,              \* the cases of timer.C and doneChan that hold a value
    wake,               \* the case the select of waitFor* has taken, or "none"
    stage1Err,          \* err of waitForCompletion / waitForDuration ("" is nil)
    log,                \* history: the stage events in the order they happened
    failed,             \* history: the stages that failed
    placedWhileWaiting, \* history: an error was placed while the select was parked
    coordStops,         \* history: the drivers waitFor* has called Stop on
    stopCalls,          \* history: per driver, the number of Stop calls
    interruptLog,       \* history: per interrupt, what held and what it did
    delivered,          \* the arguments of the last stream callback
    binned,             \* the bytes serializeMutation has made of that event
    tokenCh,            \* FilterPool.tokenCh
    calls,              \* per caller: position in FilterPool.FilterUprEvent and idxToUse
    bin,                \* one Bucket, byte by byte: data, index, its file, file closed
    binWritten,         \* history: the items whose write returned nil, in call order
    binLast,            \* history: the last call on the Bucket and the Bucket before it
    binFlushFailed,     \* history: a flushToFile of the Bucket has returned an error
    binOps,             \* number of calls made on the Bucket
    pending,            \* per vbucket: the mutation its stream callback is enqueueing
    workers,            \* MutationDiffer.Run: per worker its position, load and result counts
    waitGroup,          \* MutationDiffer.Run: the counter of waitGroup
    runPc,              \* position of the goroutine in MutationDiffer.Run
    merged,             \* the workers whose addDiff has run
    reportOf,           \* history: the workers merged when writeDiff ran
    exited,             \* the goroutines of the checkpoint manager that have returned
    closing             \* cleanup: NotClosing, the <<vbno, i>> of the Bucket it is closing, Closed

cfgVars == <<completeBySeqno, filter, newCheckpointFileName>>
cmVars == <<cmState, vbuuidMap, endSeqnoMap, startVBTS, seqnoMap, snapshots>>
streamVars == <<streamOpen, streamSeqno, streamSnapEnd>>
handlerVars == <<dataChan, hpc, ev, bucketMap, buckets, dhFin, processed>>
saverVars == <<cpPc, cpVb, cpSeqno, cpDoc, cpAtRead, cpInstants, savedDoc, checkpointFile,
              periodicFile, cpPrevFile>>
mainVars == <<errChan, mainPc>>
differVars == <<dwPc, sourceResults, targetResults, callbackPc, response,
                sourceResultCount, targetResultCount, missingFromSource,
                missingFromTarget, diff, readAtDiff>>

stage1Vars == <<cfgVars, oldCheckpointFile, cmVars, streamVars, handlerVars,
                vbCompleted, completedCount, saverVars, mainVars, driverState, resumedFrom>>

toolVars == <<options, toolPc, curState, drv, exitCode, interrupts, ready, wake, stage1Err,
              log, failed, placedWhileWaiting, coordStops, stopCalls, interruptLog>>

\* the variables of one driver's stage 1 other than the shared error channel
detailVars == <<cfgVars, oldCheckpointFile, cmVars, streamVars, handlerVars,
                vbCompleted, completedCount, saverVars, mainPc, driverState, resumedFrom>>

\* the record of one stream event, from the callback to the bin
recordVars == <<delivered, binned>>

\* the layers of single components: the event record and the components studied alone
poolVars == <<tokenCh, calls>>
binVars == <<bin, binWritten, binLast, binFlushFailed, binOps>>
\* goroutines of stage 1 whose positions are followed step by step
goVars == <<pending, closing, exited>>
\* the components that take no part in stage 1
runVars == <<workers, waitGroup, runPc, merged, reportOf>>
sideVars == <<recordVars, poolVars, binVars, runVars>>
workVars == <<poolVars, binVars, goVars, runVars>>
unitVars == <<recordVars, workVars>>

vars == <<stage1Vars, differVars, toolVars, unitVars>>

EmptyMap == [x \in {} |-> 0]

NoMutation == [vbno |-> 0, seqno |-> 0, key |-> <<>>]

\* no stream callback has been called yet
NoDelivery == [op |-> "none"]

\* processMutation's locals before any event was taken from dataChan
NoEvent == [mut |-> NoMutation, taken |-> FALSE, matched |-> FALSE, filterErr |-> FALSE,
            handled |-> FALSE, valid |-> FALSE, signalled |-> FALSE,
            wasCompleted |-> FALSE,
            prevSeqno |-> 0, binned |-> FALSE, writeErr |-> FALSE]

\* vbucket-seqno stats: the high seqnos a cluster may report
HighSeqnos == 1 .. MaxUint64

\* vbucket-seqno stats: the vbuuid reported for a vbucket
VbuuidStat(vbno) == 11 + vbno

\* the cluster's content: the key of the document changed at seqno in vbno
\* (a key belongs to one vbucket; the model has one document per vbucket)
KeyAt(vbno, seqno) == <<1 + (vbno % 2)>>

\* A hand-made old checkpoint file of n entries, vbnos 0 .. n-1
ExternalDoc(n) == [vb \in 0 .. (n - 1) |-> Checkpoint(VbuuidStat(vb), 1, 1, 2)]

ExternalFiles ==
    {File(Marshal(ExternalDoc(n))) : n \in (NumberOfVbuckets - 1) .. (NumberOfVbuckets + 1)}

\* a checkpoint file an earlier run has left at cm.newCheckpointFileName
PreviousFile == File(Marshal(ExternalDoc(NumberOfVbuckets)))

VBTS(checkpoint, endSeqno, noNeed) ==
    [Checkpoint |-> checkpoint, EndSeqno |-> endSeqno, NoNeedToStartDcpStream |-> noNeed]

\* Go map read: the zero value for a missing key
MapGet(m, k) == IF k \in DOMAIN m THEN m[k] ELSE 0

\* utils.AddToErrorChan: non-blocking send on the error channel
AddToErrorChan(ch, err) == IF Len(ch) < 1 THEN Append(ch, err) ELSE ch

\* loadCheckpoints: the document, or an error
loadCheckpoints(file) ==
    LET doc == Unmarshal(file.bytes)
    IN  IF Cardinality(DOMAIN doc) < NumberOfVbuckets
        THEN [err |-> TRUE, doc |-> EmptyMap]
        ELSE [err |-> FALSE, doc |-> doc]

\* setStartVBTS where the comparison with the end seqno is made in either mode
VBTSOfCheckpointAnyMode(checkpoint, endSeqno) ==
    VBTS(checkpoint, endSeqno, checkpoint.Seqno >= endSeqno)

\* setStartVBTS, loop body: the VBTS built from one checkpoint of the document
VBTSOfCheckpoint(checkpoint, endSeqno) ==
    VBTS(checkpoint, endSeqno, completeBySeqno /\ checkpoint.Seqno >= endSeqno)

\* setStartVBTS without the seeding of seqnoMap: the seqno stays 0
SeedSeqnoZero(checkpoint) == 0

\* setStartVBTS, loop body: cm.seqnoMap[vbno].setSeqno(checkpoint.Seqno)
SeedSeqno(checkpoint) == checkpoint.Seqno

\* setStartVBTS without an old checkpoint
FreshVBTS(endSeqno) == VBTS(ZeroCheckpoint, endSeqno, FALSE)

(***************************************************************************)
(* Bucket, the bin writer: a buffer of BucketBufferCapacity (counted in    *)
(* records) in front of an append-only file.                               *)
(***************************************************************************)

\* NewBucket: empty buffer (index 0), file open
NewBucket == [data |-> <<>>, file |-> <<>>, closed |-> FALSE]

\* Bucket.write: b.index+len(item) > base.BucketBufferCapacity
Overflows(b, item) == Len(b.data) + 1 > BucketBufferCapacity

\* Bucket.flushToFile, all bytes written: the buffer is appended and index reset
flushToFile(b) == [b EXCEPT !.file = @ \o b.data, !.data = <<>>]

\* Bucket.flushToFile returning an error or an incomplete write after
\* numOfBytes records reached the file: index and buffer are kept
flushToFileFailed(b, numOfBytes) ==
    [b EXCEPT !.file = @ \o SubSeq(b.data, 1, numOfBytes)]

\* Bucket.write returning nil: flush when the item does not fit, then copy
write(b, item) ==
    LET flushed == IF Overflows(b, item) THEN flushToFile(b) ELSE b
    IN  [flushed EXCEPT !.data = Append(@, item)]

\* Bucket.close: flush, then close the file; on a closed file both fail and
\* are logged
close(b) == IF b.closed THEN b ELSE [flushToFile(b) EXCEPT !.closed = TRUE]

\* DcpHandler.cleanup: close every bucket of the handler
cleanup(bm) == [v \in DOMAIN bm |-> [i \in DOMAIN bm[v] |-> close(bm[v][i])]]

(***************************************************************************)
(* The mutation differ's data: keys, metadata results, responses.          *)
(***************************************************************************)

\* the keys of one DifferWorker (dw.keys)
DiffKeys == {<<k>> : k \in 1 .. NumberOfKeys}

KeyNotFoundErrMsg == "key not found"

\* an error of a metadata get that is not key-not-found
OtherErrMsg == "temporary failure"

\* gocbcore.GetMetaResult, the fields the differ compares
GetMetaResult(value, flags, datatype, cas, expiry, seqNo, deleted) ==
    [Value |-> value, Flags |-> flags, Datatype |-> datatype, Cas |-> cas,
     Expiry |-> expiry, SeqNo |-> seqNo, Deleted |-> deleted]

BaseMeta == GetMetaResult(0, 0, 0, 0, 0, 0, 0)

\* the metadata a bucket may return: BaseMeta and its one-field variants
Metas ==
    {BaseMeta} \cup
    {[BaseMeta EXCEPT ![f] = 1] :
        f \in {"Value", "Flags", "Datatype", "Cas", "Expiry", "SeqNo", "Deleted"}}

\* a pointer is <<>> (nil) or <<m>>; a nil error is ""
GetResult(key, result, err) == [Key |-> key, Result |-> result, Error |-> err]

EmptyGetResult == GetResult(<<>>, <<>>, "")

NoResponse == [result |-> <<>>, err |-> ""]

\* what GetMetaEx hands to the callback: metadata, or nil and an error
Responses ==
    {[result |-> <<m>>, err |-> ""] : m \in Metas} \cup
    {[result |-> <<>>, err |-> e] : e \in {KeyNotFoundErrMsg, OtherErrMsg}}

(***************************************************************************)
(* The coordinator's data: options and the two drivers, seen from main.    *)
(***************************************************************************)

Sides == {"source", "target"}

\* the options main and generateDataFiles branch on
Options ==
    [runDataGeneration : BOOLEAN, runFileDiffer : BOOLEAN, runMutationDiffer : BOOLEAN,
     completeByDuration : 0 .. 1]

NoOptions ==
    [runDataGeneration |-> FALSE, runFileDiffer |-> FALSE, runMutationDiffer |-> FALSE,
     completeByDuration |-> 0]

\* a driver as main sees it: state is "nil" (not created), "new" (created, its
\* Start not yet run), "started", "startFailed" or "stopped"
DcpDriver(state, finChanClosed, finalCheckpoints, panicked) ==
    [state |-> state, finChanClosed |-> finChanClosed,
     finalCheckpoints |-> finalCheckpoints, panicked |-> panicked]

NilDriver == DcpDriver("nil", FALSE, 0, FALSE)

\* the number of filters of the pool, and of goroutines calling it
numOfFilters == 2
NumberOfCallers == 3
Callers == 1 .. NumberOfCallers

\* NewFilterPool without error: filter i is made and token i is put on the channel
NewFilterPool == [i \in 1 .. numOfFilters |-> i - 1]

\* d.numberOfWorkers, and the workers of one MutationDiffer.Run
numberOfWorkers == 2
Workers == 1 .. numberOfWorkers
NoWorker == [pc |-> "none", keys |-> 0, sourceResultCount |-> 0, targetResultCount |-> 0]

\* cleanup before its loops and after them
NotClosing == <<-1, -1>>
Closed == <<NumberOfVbuckets, 0>>

\* a goroutine outside FilterUprEvent
NoCall == [pc |-> "idle", idxToUse |-> -1]

\* base.BucketBufferCapacity in bytes, the longest serialized record, and the
\* number of calls made on the Bucket that is studied byte by byte
BucketBufferBytes == 3
MaxRecordLen == 2
MaxBucketOps == 4

\* NewBucket: data: make([]byte, base.BucketBufferCapacity), index: 0, an open file
NewBucketBytes ==
    [data |-> [i \in 1 .. BucketBufferBytes |-> 0], index |-> 0, file |-> <<>>,
     closed |-> FALSE]

\* dcp.NewDcpDriver
NewDcpDriver == DcpDriver("new", FALSE, 0, FALSE)

Init ==
    /\ completeBySeqno \in BOOLEAN
    /\ filter \in BOOLEAN
    /\ newCheckpointFileName \in {"", "checkpoint"}
    /\ oldCheckpointFile \in {NoFile} \cup ExternalFiles
    /\ cmState = "new"
    /\ vbuuidMap = EmptyMap
    /\ endSeqnoMap = EmptyMap
    /\ startVBTS = EmptyMap
    /\ seqnoMap = [v \in Vbnos |-> 0]
    /\ snapshots = [v \in Vbnos |-> [startSeqno |-> 0, endSeqno |-> 0]]
    /\ streamOpen = [v \in Vbnos |-> FALSE]
    /\ streamSeqno = [v \in Vbnos |-> 0]
    /\ streamSnapEnd = [v \in Vbnos |-> 0]
    /\ dataChan = <<>>
    /\ hpc = "idle"
    /\ ev = NoEvent
    /\ bucketMap = [v \in Vbnos |-> [i \in 0 .. (NumberOfBins - 1) |-> {}]]
    /\ buckets = [v \in Vbnos |-> [i \in 0 .. (NumberOfBins - 1) |-> NewBucket]]
    /\ dhFin = FALSE
    /\ processed = [v \in Vbnos |-> FALSE]
    /\ vbCompleted = [v \in Vbnos |-> FALSE]
    /\ completedCount = 0
    /\ errChan = <<>>
    /\ mainPc = "waiting"
    /\ cpPc = "idle"
    /\ cpVb = 0
    /\ cpSeqno = 0
    /\ cpDoc = EmptyMap
    /\ cpAtRead = EmptyMap
    /\ cpInstants = {}
    /\ savedDoc = EmptyMap
    /\ checkpointFile \in {NoFile, PreviousFile}
    /\ periodicFile = NoFile
    /\ cpPrevFile = checkpointFile
    /\ driverState = "running"
    /\ resumedFrom = EmptyMap
    /\ dwPc = "init"
    /\ sourceResults = [key \in DiffKeys |-> EmptyGetResult]
    /\ targetResults = [key \in DiffKeys |-> EmptyGetResult]
    /\ callbackPc = [isSource \in BOOLEAN |-> [key \in DiffKeys |-> "none"]]
    /\ response = [isSource \in BOOLEAN |-> [key \in DiffKeys |-> NoResponse]]
    /\ sourceResultCount = 0
    /\ targetResultCount = 0
    /\ missingFromSource = EmptyMap
    /\ missingFromTarget = EmptyMap
    /\ diff = EmptyMap
    /\ readAtDiff = [isSource \in BOOLEAN |-> [key \in DiffKeys |-> "none"]]
    /\ options = NoOptions
    /\ toolPc = "argParse"
    /\ curState = "finStateInitial"
    /\ drv = [side \in Sides |-> NilDriver]
    /\ exitCode = -1
    /\ interrupts = 0
    /\ ready = {}
    /\ wake = "none"
    /\ stage1Err = ""
    /\ log = <<>>
    /\ failed = {}
    /\ placedWhileWaiting = FALSE
    /\ coordStops = {}
    /\ stopCalls = [side \in Sides |-> 0]
    /\ interruptLog = <<>>
    /\ delivered = NoDelivery
    /\ tokenCh = NewFilterPool
    /\ calls = [c \in Callers |-> NoCall]
    /\ bin = NewBucketBytes
    /\ binWritten = <<>>
    /\ binLast = [op |-> "none", item |-> <<>>, err |-> FALSE, before |-> NewBucketBytes]
    /\ binFlushFailed = FALSE
    /\ binOps = 0
    /\ pending = [v \in Vbnos |-> NoMutation]
    /\ closing = NotClosing
    /\ exited = {}
    /\ workers = [w \in Workers |-> NoWorker]
    /\ waitGroup = 0
    /\ runPc = "start"
    /\ merged = {}
    /\ reportOf = {}
    /\ binned = <<>>


(***************************************************************************)
(* CheckpointManager.Start -> initialize: stats, end seqnos, setStartVBTS. *)
(* The clients open their streams once Start has returned without error.   *)
(***************************************************************************)

\* getVbuuidsAndHighSeqnos: the end seqno map for the high seqnos of the stats
EndSeqnos(highSeqnos) ==
    IF completeBySeqno THEN highSeqnos ELSE [v \in Vbnos |-> MaxUint64]

\* DcpClient: a stream per vbucket from start VBTS; none where NoNeedToStartDcpStream
OpenStreams ==
    /\ streamOpen' = [v \in Vbnos |-> ~startVBTS'[v].NoNeedToStartDcpStream]
    /\ vbCompleted' = [v \in Vbnos |-> startVBTS'[v].NoNeedToStartDcpStream]
    /\ completedCount' = Cardinality({v \in Vbnos : startVBTS'[v].NoNeedToStartDcpStream})
    /\ streamSeqno' = [v \in Vbnos |-> startVBTS'[v].Checkpoint.Seqno]
    /\ streamSnapEnd' = [v \in Vbnos |-> startVBTS'[v].Checkpoint.Seqno]

\* Start returned an error that startDcpDriverAysnc keeps to itself
StartFailedSilent ==
    /\ cmState' = "failed"
    /\ UNCHANGED <<errChan, vbuuidMap, endSeqnoMap, startVBTS, seqnoMap, streamVars,
                   vbCompleted, completedCount>>

\* Start returned an error: startDcpDriverAysnc puts it on the error channel
StartFailed ==
    /\ cmState' = "failed"
    /\ errChan' = AddToErrorChan(errChan, "start")
    /\ UNCHANGED <<vbuuidMap, endSeqnoMap, startVBTS, seqnoMap, streamVars, vbCompleted, completedCount>>

\* setStartVBTS with an old checkpoint document
SetStartVBTSFromDoc(doc, endSeqnos) ==
    IF DOMAIN doc \subseteq Vbnos
    THEN /\ startVBTS' = [vb \in DOMAIN doc |-> VBTSOfCheckpoint(doc[vb], endSeqnos[vb])]
         /\ seqnoMap' = [v \in Vbnos |->
                            IF v \in DOMAIN doc THEN SeedSeqno(doc[v]) ELSE seqnoMap[v]]
         /\ cmState' = "started"
         /\ OpenStreams
         /\ UNCHANGED errChan
    ELSE \* cm.seqnoMap[vbno] is nil for a vbno that is no vbucket: the loop panics
         \* there, after the entries the map iteration happened to visit before
         \E bad \in DOMAIN doc \ Vbnos : \E done \in SUBSET (DOMAIN doc \cap Vbnos) :
            /\ startVBTS' = [vb \in done \cup {bad} |->
                                VBTSOfCheckpoint(doc[vb], MapGet(endSeqnos, vb))]
            /\ seqnoMap' = [v \in Vbnos |->
                               IF v \in done THEN SeedSeqno(doc[v]) ELSE seqnoMap[v]]
            /\ cmState' = "panicked"
            /\ UNCHANGED <<errChan, streamVars, vbCompleted, completedCount>>

setStartVBTS(endSeqnos) ==
    IF oldCheckpointFile # NoFile
    THEN LET loaded == loadCheckpoints(oldCheckpointFile)
         IN  IF loaded.err
             THEN /\ vbuuidMap' = [v \in Vbnos |-> VbuuidStat(v)]
                  /\ endSeqnoMap' = endSeqnos
                  /\ cmState' = "failed"
                  /\ errChan' = AddToErrorChan(errChan, "start")
                  /\ UNCHANGED <<startVBTS, seqnoMap, streamVars, vbCompleted, completedCount>>
             ELSE /\ vbuuidMap' = [v \in Vbnos |-> VbuuidStat(v)]
                  /\ endSeqnoMap' = endSeqnos
                  /\ SetStartVBTSFromDoc(loaded.doc, endSeqnos)
    ELSE /\ vbuuidMap' = [v \in Vbnos |-> VbuuidStat(v)]
         /\ endSeqnoMap' = endSeqnos
         /\ startVBTS' = [v \in Vbnos |-> FreshVBTS(endSeqnos[v])]
         /\ cmState' = "started"
         /\ OpenStreams
         /\ UNCHANGED <<seqnoMap, errChan>>

Start ==
    /\ cmState = "new"
    /\ \/ StartFailed            \* the stats request failed on every attempt
       \/ \E highSeqnos \in [Vbnos -> HighSeqnos] : setStartVBTS(EndSeqnos(highSeqnos))
    /\ UNCHANGED <<toolVars, differVars, unitVars, cfgVars, oldCheckpointFile, snapshots, handlerVars, saverVars,
                   mainPc, driverState, resumedFrom>>

Running == cmState = "started"

(***************************************************************************)
(* Stream callbacks (DcpHandler as StreamObserver).  Per vbucket the       *)
(* stream delivers a snapshot marker, then the mutations of that snapshot  *)
(* in increasing seqno order.                                              *)
(***************************************************************************)

\* CheckpointManager.updateSnapshot
updateSnapshot(vbno, startSeqno, endSeqno) ==
    [snapshots EXCEPT ![vbno] = [startSeqno |-> startSeqno, endSeqno |-> endSeqno]]

\* DcpHandler.SnapshotMarker
SnapshotMarker(vbno) ==
    /\ Running /\ streamOpen[vbno]
    /\ streamSeqno[vbno] = streamSnapEnd[vbno]
    /\ \E endSeqno \in (streamSeqno[vbno] + 1) .. MaxUint64 :
          /\ snapshots' = updateSnapshot(vbno, streamSeqno[vbno] + 1, endSeqno)
          /\ streamSnapEnd' = [streamSnapEnd EXCEPT ![vbno] = endSeqno]
    /\ UNCHANGED <<toolVars, differVars, unitVars, cfgVars, oldCheckpointFile, cmState, vbuuidMap, endSeqnoMap,
                   startVBTS, seqnoMap, streamOpen, streamSeqno, handlerVars,
                   vbCompleted, completedCount, saverVars, mainVars, driverState, resumedFrom>>

\* writeToDataChan without the case of finChan
writeToDataChanNoFin(mut) ==
    /\ Len(dataChan) < DataChanSize
    /\ dataChan' = Append(dataChan, mut)

\* DcpHandler.writeToDataChan: send, or give up when finChan is closed
writeToDataChan(mut) ==
    \/ /\ Len(dataChan) < DataChanSize
       /\ dataChan' = Append(dataChan, mut)
    \/ /\ dhFin
       /\ dataChan' = dataChan

\* DcpHandler.Mutation / Deletion / Expiration
Mutation(vbno) ==
    /\ Running /\ streamOpen[vbno]
    /\ \E seqno \in (streamSeqno[vbno] + 1) .. streamSnapEnd[vbno] :
          /\ writeToDataChan([vbno |-> vbno, seqno |-> seqno, key |-> KeyAt(vbno, seqno)])
          /\ streamSeqno' = [streamSeqno EXCEPT ![vbno] = seqno]
    /\ UNCHANGED <<toolVars, differVars, unitVars, cfgVars, oldCheckpointFile, cmVars, streamOpen, streamSnapEnd,
                   hpc, ev, bucketMap, buckets, dhFin, processed, vbCompleted, completedCount, saverVars,
                   mainVars, driverState, resumedFrom>>


(***************************************************************************)
(* The handler goroutine: processData takes an event from dataChan and     *)
(* processMutation filters it, hands it to the checkpoint manager and      *)
(* writes it to its bin.                                                   *)
(***************************************************************************)

\* FilterUprEvent: what a configured filter may return for an event
FilterOutcomes == {"match", "nomatch", "error"}

\* processMutation returning after the filter block when the event did not match
AfterFilterDrop(matched) == IF matched THEN "handle" ELSE "idle"

\* processMutation, after the filter block: the next position of the handler
AfterFilter(matched) == "handle"

\* processData, case mut := <-dh.dataChan, and the filter block of processMutation
TakeMutation ==
    /\ hpc = "idle" /\ dataChan # <<>>
    /\ \E outcome \in (IF filter THEN FilterOutcomes ELSE {"nofilter"}) :
          /\ ev' = [NoEvent EXCEPT !.mut = Head(dataChan), !.taken = TRUE,
                                   !.matched = (outcome = "match"),
                                   !.filterErr = (outcome = "error")]
          /\ hpc' = AfterFilter(outcome = "match")
    /\ dataChan' = Tail(dataChan)
    /\ UNCHANGED <<toolVars, differVars, unitVars, cfgVars, oldCheckpointFile, cmVars, streamVars, bucketMap, buckets, dhFin,
                   processed, vbCompleted, completedCount, saverVars, mainVars, driverState, resumedFrom>>

\* processData, case <-dh.finChan
ProcessDataExit ==
    /\ hpc = "idle" /\ dhFin
    /\ hpc' = "exited"
    /\ UNCHANGED <<toolVars, differVars, unitVars, cfgVars, oldCheckpointFile, cmVars, streamVars, dataChan, ev,
                   bucketMap, buckets, dhFin, processed, vbCompleted, completedCount, saverVars, mainVars,
                   driverState, resumedFrom>>

\* HandleMutationEvent accepting a mutation beyond the end seqno
HandleMutationEventNoDrop(mut) ==
    IF completeBySeqno
    THEN [signal |-> mut.seqno >= endSeqnoMap[mut.vbno], valid |-> TRUE,
          seqno |-> mut.seqno]
    ELSE [signal |-> FALSE, valid |-> TRUE, seqno |-> mut.seqno]

\* HandleMutationEvent signalling completion only beyond the end seqno
HandleMutationEventLateSignal(mut) ==
    IF completeBySeqno
    THEN LET endSeqno == endSeqnoMap[mut.vbno]
         IN  [signal |-> mut.seqno > endSeqno,
              valid |-> mut.seqno <= endSeqno,
              seqno |-> IF mut.seqno <= endSeqno THEN mut.seqno ELSE seqnoMap[mut.vbno]]
    ELSE [signal |-> FALSE, valid |-> TRUE, seqno |-> mut.seqno]

\* HandleMutationEvent comparing with the end seqno in either mode
HandleMutationEventAnyMode(mut) ==
    LET endSeqno == endSeqnoMap[mut.vbno]
    IN  [signal |-> mut.seqno >= endSeqno,
         valid |-> mut.seqno <= endSeqno,
         seqno |-> IF mut.seqno <= endSeqno THEN mut.seqno ELSE seqnoMap[mut.vbno]]

\* HandleMutationEvent accepting a mutation without recording its seqno
HandleMutationEventKeepSeqno(mut) ==
    IF completeBySeqno
    THEN LET endSeqno == endSeqnoMap[mut.vbno]
         IN  [signal |-> mut.seqno >= endSeqno,
              valid |-> mut.seqno <= endSeqno,
              seqno |-> seqnoMap[mut.vbno]]
    ELSE [signal |-> FALSE, valid |-> TRUE, seqno |-> seqnoMap[mut.vbno]]

\* CheckpointManager.HandleMutationEvent: whether completion is signalled, whether
\* the mutation is valid, and the seqno of its vbucket afterwards
HandleMutationEvent(mut) ==
    IF completeBySeqno
    THEN LET endSeqno == endSeqnoMap[mut.vbno]
         IN  [signal |-> mut.seqno >= endSeqno,
              valid |-> mut.seqno <= endSeqno,
              seqno |-> IF mut.seqno <= endSeqno THEN mut.seqno ELSE seqnoMap[mut.vbno]]
    ELSE [signal |-> FALSE, valid |-> TRUE, seqno |-> mut.seqno]

\* DcpDriver.handleVbucketCompletion without error: the vbucket is marked completed
handleVbucketCompletion(vbno) == [vbCompleted EXCEPT ![vbno] = TRUE]

\* handleVbucketCompletion counting every signal, a repeated one too
CompletedCountOfEverySignal(vbno) == completedCount + 1

\* handleVbucketCompletion: the completed count, a signal for a vbucket that is
\* marked completed already being ignored
CompletedCount(vbno) ==
    IF vbCompleted[vbno] THEN completedCount ELSE completedCount + 1

\* processMutation: valid := ...HandleMutationEvent(mut); if !valid { return }
HandleMutation ==
    /\ hpc = "handle"
    /\ LET mut == ev.mut
           res == HandleMutationEvent(mut)
       IN  /\ vbCompleted' = IF res.signal THEN handleVbucketCompletion(mut.vbno)
                             ELSE vbCompleted
           /\ completedCount' = IF res.signal THEN CompletedCount(mut.vbno)
                                ELSE completedCount
           /\ seqnoMap' = [seqnoMap EXCEPT ![mut.vbno] = res.seqno]
           /\ cpInstants' = IF cpPc = "idle" THEN cpInstants
                            ELSE cpInstants \cup {[seqnoMap EXCEPT ![mut.vbno] = res.seqno]}
           /\ processed' = [processed EXCEPT ![mut.vbno] = TRUE]
           /\ ev' = [ev EXCEPT !.handled = TRUE, !.valid = res.valid,
                               !.signalled = res.signal,
                               !.wasCompleted = vbCompleted[mut.vbno],
                               !.prevSeqno = seqnoMap[mut.vbno]]
           /\ hpc' = IF res.valid THEN "write" ELSE "idle"
    /\ UNCHANGED <<toolVars, differVars, unitVars, cfgVars, oldCheckpointFile, cmState, vbuuidMap, endSeqnoMap,
                   startVBTS, snapshots, streamVars, dataChan, bucketMap, buckets, dhFin,
                   cpPc, cpVb, cpSeqno, cpDoc, cpAtRead, savedDoc, checkpointFile,
                   periodicFile, cpPrevFile, mainVars, driverState, resumedFrom>>

\* a stand-in for the hash of utils.GetBucketIndexFromKey
KeyHash(key) == IF Len(key) = 0 THEN 0 ELSE key[1]

\* utils.GetBucketIndexFromKey
GetBucketIndexFromKey(key, numberOfBins) == KeyHash(key) % numberOfBins

\* processMutation: bucket.write(serializeMutation(mut)); the error that write
\* returns is not looked at.  A flush on a file that cleanup has closed fails.
BucketWrite ==
    /\ hpc = "write"
    /\ LET mut == ev.mut
           index == GetBucketIndexFromKey(mut.key, NumberOfBins)
           b == buckets[mut.vbno][index]
       IN  /\ bucketMap' = [bucketMap EXCEPT ![mut.vbno][index] = @ \cup {mut}]
           /\ IF Overflows(b, mut) /\ b.closed
              THEN /\ buckets' = buckets
                   /\ ev' = [ev EXCEPT !.binned = TRUE, !.writeErr = TRUE]
              ELSE /\ buckets' = [buckets EXCEPT ![mut.vbno][index] = write(b, mut)]
                   /\ ev' = [ev EXCEPT !.binned = TRUE]
    /\ hpc' = "idle"
    /\ UNCHANGED <<toolVars, differVars, unitVars, cfgVars, oldCheckpointFile, cmVars, streamVars, dataChan, dhFin,
                   processed, vbCompleted, completedCount, saverVars, mainVars, driverState, resumedFrom>>

\* processMutation: bucket.write whose flush meets an I/O error or an incomplete
\* write; write returns the error before copying the item
BucketWriteFails ==
    /\ hpc = "write"
    /\ LET mut == ev.mut
           index == GetBucketIndexFromKey(mut.key, NumberOfBins)
           b == buckets[mut.vbno][index]
       IN  /\ Overflows(b, mut) /\ ~b.closed
           /\ bucketMap' = [bucketMap EXCEPT ![mut.vbno][index] = @ \cup {mut}]
           /\ \E numOfBytes \in 0 .. (Len(b.data) - 1) :
                 buckets' = [buckets EXCEPT ![mut.vbno][index] =
                                flushToFileFailed(b, numOfBytes)]
    /\ ev' = [ev EXCEPT !.binned = TRUE, !.writeErr = TRUE]
    /\ hpc' = "idle"
    /\ UNCHANGED <<toolVars, differVars, unitVars, cfgVars, oldCheckpointFile, cmVars, streamVars, dataChan, dhFin,
                   processed, vbCompleted, completedCount, saverVars, mainVars, driverState, resumedFrom>>

(***************************************************************************)
(* saveCheckpoint, run by periodicalCheckpointing (file <name>_<iter>) and *)
(* by Stop (file <name>).  Per vbucket it reads the seqno and then, when   *)
(* the seqno differs from that of start VBTS, the snapshot, each under its *)
(* own lock; everything else it does is local to it.                       *)
(***************************************************************************)

\* the seqnos of the mutations of vbno that HandleMutationEvent has accepted and
\* that have not been handed to their bin writer
Unbinned(vbno) ==
    IF hpc = "write" /\ ev.mut.vbno = vbno THEN {ev.mut.seqno} ELSE {}

\* a snapshot marker of vbno has been recorded since start VBTS was built
MarkerRecorded(vbno) ==
    snapshots[vbno].endSeqno # 0

\* saveCheckpoint taking the current snapshot whatever the seqno
NeedsSnapshotAlways(vbno, seqno) == TRUE

\* saveCheckpoint, loop body: does the entry need the current snapshot
NeedsSnapshot(vbno, seqno) == seqno # startVBTS[vbno].Checkpoint.Seqno

\* saveCheckpoint, loop body: the snapshot pair saved with seqno for vbno
SnapshotToSave(vbno, seqno) ==
    LET curStartVBTS == startVBTS[vbno].Checkpoint
    IN  IF NeedsSnapshot(vbno, seqno)
        THEN <<snapshots[vbno].startSeqno, snapshots[vbno].endSeqno>>
        ELSE <<curStartVBTS.SnapshotStartSeqno, curStartVBTS.SnapshotEndSeqno>>

\* checkpointDoc.Checkpoints[vbno] = &Checkpoint{...}, and the loop's next turn
AddCheckpoint(doc, vbno, seqno) ==
    /\ LET snap == SnapshotToSave(vbno, seqno)
       IN  cpDoc' = [vb \in DOMAIN doc \cup {vbno} |->
                        IF vb = vbno
                        THEN Checkpoint(vbuuidMap[vbno], seqno, snap[1], snap[2])
                        ELSE doc[vb]]
    /\ IF vbno + 1 < NumberOfVbuckets
       THEN cpVb' = vbno + 1 /\ cpPc' = "seqno"
       ELSE cpVb' = vbno /\ cpPc' = "write"

\* seqno := cm.seqnoMap[vbno].getSeqno(), of vbucket vbno with doc built so far
ReadSeqno(doc, atRead, vbno) ==
    /\ cpSeqno' = seqnoMap[vbno]
    /\ cpAtRead' = [vb \in DOMAIN atRead \cup {vbno} |->
                       IF vb = vbno
                       THEN [processed |-> processed[vbno],
                             unbinned |-> Unbinned(vbno),
                             marker |-> MarkerRecorded(vbno)]
                       ELSE atRead[vb]]
    /\ IF NeedsSnapshot(vbno, seqnoMap[vbno])
       THEN cpPc' = "snap" /\ cpVb' = vbno /\ cpDoc' = doc
       ELSE AddCheckpoint(doc, vbno, seqnoMap[vbno])

\* periodicalCheckpointing: checkpointOnce(iter) on a path of its own,
\* <name>_<iter>: os.Remove and what follows up to the first read
SaveBegin ==
    /\ Running /\ driverState \in {"running", "handlersStopped"}
    /\ cpPc = "idle"
    /\ periodicFile' = NoFile
    /\ ReadSeqno(EmptyMap, EmptyMap, 0)
    /\ cpInstants' = {seqnoMap}
    /\ UNCHANGED <<toolVars, differVars, unitVars, cfgVars, oldCheckpointFile, cmVars, streamVars, handlerVars,
                   vbCompleted, completedCount, savedDoc, checkpointFile, cpPrevFile, mainVars, driverState,
                   resumedFrom>>

\* saveCheckpoint: the seqno of the next vbucket
SaveReadSeqno ==
    /\ cpPc = "seqno"
    /\ ReadSeqno(cpDoc, cpAtRead, cpVb)
    /\ UNCHANGED <<toolVars, differVars, unitVars, cfgVars, oldCheckpointFile, cmVars, streamVars, handlerVars,
                   vbCompleted, completedCount, cpInstants, savedDoc, checkpointFile, periodicFile, cpPrevFile,
                   mainVars, driverState, resumedFrom>>

\* saveCheckpoint: cm.getSnapshot(vbno)
SaveReadSnapshot ==
    /\ cpPc = "snap"
    /\ AddCheckpoint(cpDoc, cpVb, cpSeqno)
    /\ UNCHANGED <<toolVars, differVars, unitVars, cfgVars, oldCheckpointFile, cmVars, streamVars, handlerVars,
                   vbCompleted, completedCount, cpSeqno, cpAtRead, cpInstants, savedDoc, checkpointFile, periodicFile,
                   cpPrevFile, mainVars, driverState, resumedFrom>>

\* the file saveCheckpoint is writing: <name> on Stop, <name>_<iter> otherwise
SetTarget(file) ==
    IF driverState = "finalSave"
    THEN checkpointFile' = file /\ UNCHANGED periodicFile
    ELSE periodicFile' = file /\ UNCHANGED checkpointFile

\* saveCheckpoint returns; CheckpointManager.Stop goes on after its final save
SaveReturn ==
    /\ cpPc' = "idle" /\ cpVb' = 0 /\ cpSeqno' = 0
    /\ cpDoc' = EmptyMap /\ cpAtRead' = EmptyMap /\ cpInstants' = {}
    /\ driverState' = IF driverState = "finalSave" THEN "stopped" ELSE driverState

\* saveCheckpoint: json.Marshal, then os.OpenFile creates the file
SaveOpen ==
    /\ cpPc = "write"
    /\ SetTarget(File({}))
    /\ cpPc' = "file"
    /\ UNCHANGED <<toolVars, differVars, unitVars, cfgVars, oldCheckpointFile, cmVars, streamVars, handlerVars,
                   vbCompleted, completedCount, cpVb, cpSeqno, cpDoc, cpAtRead, cpInstants, savedDoc, cpPrevFile,
                   mainVars, driverState, resumedFrom>>

\* saveCheckpoint: os.OpenFile returns an error
SaveOpenFails ==
    /\ cpPc = "write"
    /\ SaveReturn
    /\ UNCHANGED <<toolVars, differVars, unitVars, cfgVars, oldCheckpointFile, cmVars, streamVars, handlerVars,
                   vbCompleted, completedCount, savedDoc, checkpointFile, periodicFile, cpPrevFile,
                   mainVars, resumedFrom>>

\* saveCheckpoint: checkpointFile.Write(value) writes the whole document
SaveWrite ==
    /\ cpPc = "file"
    /\ SetTarget(File(Marshal(cpDoc)))
    /\ savedDoc' = IF driverState = "finalSave" THEN cpDoc ELSE savedDoc
    /\ SaveReturn
    /\ UNCHANGED <<toolVars, differVars, unitVars, cfgVars, oldCheckpointFile, cmVars, streamVars, handlerVars,
                   vbCompleted, completedCount, cpPrevFile, mainVars, resumedFrom>>

\* saveCheckpoint: checkpointFile.Write(value) returns an error or a short count
SaveWriteFails ==
    /\ cpPc = "file"
    /\ \E written \in (SUBSET Marshal(cpDoc)) \ {Marshal(cpDoc)} : SetTarget(File(written))
    /\ SaveReturn
    /\ UNCHANGED <<toolVars, differVars, unitVars, cfgVars, oldCheckpointFile, cmVars, streamVars, handlerVars,
                   vbCompleted, completedCount, savedDoc, cpPrevFile, mainVars, resumedFrom>>

(***************************************************************************)
(* End of a stream, the coordinator's wait, Stop, and a second run.        *)
(***************************************************************************)

Alive == cmState # "panicked"

\* DcpHandler.End: the stream of vbno has ended, at its end seqno or with an error
End(vbno) ==
    /\ Running /\ streamOpen[vbno]
    /\ streamOpen' = [streamOpen EXCEPT ![vbno] = FALSE]
    /\ \/ /\ streamSeqno[vbno] >= endSeqnoMap[vbno]
          /\ vbCompleted' = handleVbucketCompletion(vbno)
          /\ completedCount' = CompletedCount(vbno)
          /\ UNCHANGED errChan
       \/ /\ errChan' = AddToErrorChan(errChan, "stream")
          /\ UNCHANGED <<vbCompleted, completedCount>>
    /\ UNCHANGED <<toolVars, differVars, unitVars, cfgVars, oldCheckpointFile, cmVars, streamSeqno, streamSnapEnd,
                   handlerVars, saverVars, mainPc, driverState, resumedFrom>>

\* waitForCompletion: select on errChan and doneChan
waitForCompletion ==
    \/ /\ errChan # <<>>
       /\ errChan' = Tail(errChan)
       /\ mainPc' = "error"
    \/ /\ driverState = "stopped"
       /\ mainPc' = "done"
       /\ UNCHANGED errChan

\* waitForDuration: select on errChan and timer.C
waitForDuration ==
    \/ /\ errChan # <<>>
       /\ errChan' = Tail(errChan)
       /\ mainPc' = "error"
    \/ /\ mainPc' = "timer"
       /\ UNCHANGED errChan

\* generateDataFiles: the wait for the end of stage 1
Wait ==
    /\ Alive /\ mainPc = "waiting"
    /\ IF completeBySeqno THEN waitForCompletion ELSE waitForDuration
    /\ UNCHANGED <<toolVars, differVars, unitVars, cfgVars, oldCheckpointFile, cmVars, streamVars, handlerVars,
                   vbCompleted, completedCount, saverVars, driverState, resumedFrom>>

\* DcpHandler.Stop: close(dh.finChan), no wait for processData, then cleanup
DcpHandlerStop ==
    /\ dhFin' = TRUE
    /\ buckets' = cleanup(buckets)

\* DcpDriver.Stop, first part: the handlers are stopped.  The coordinator stops
\* the driver on an error or the timer; the driver stops itself when every
\* vbucket has completed.
StopHandlers ==
    /\ Alive /\ driverState = "running"
    /\ \/ mainPc \in {"error", "timer"}
       \/ Running /\ \A v \in Vbnos : vbCompleted[v]
    /\ DcpHandlerStop
    /\ driverState' = "handlersStopped"
    /\ UNCHANGED <<toolVars, differVars, unitVars, cfgVars, oldCheckpointFile, cmVars, streamVars, dataChan, hpc, ev,
                   bucketMap, processed, vbCompleted, completedCount, saverVars, mainVars, resumedFrom>>

\* CheckpointManager.Stop: SaveCheckpoint when started, which saves when a new
\* checkpoint file name was configured; then close(cm.finChan)
CheckpointManagerStop ==
    /\ Alive /\ driverState = "handlersStopped" /\ cpPc = "idle"
    /\ IF cmState = "started" /\ newCheckpointFileName # ""
       THEN /\ cpPrevFile' = checkpointFile
            /\ checkpointFile' = NoFile
            /\ ReadSeqno(EmptyMap, EmptyMap, 0)
            /\ cpInstants' = {seqnoMap}
            /\ driverState' = "finalSave"
       ELSE /\ driverState' = "stopped"
            /\ UNCHANGED <<cpPc, cpVb, cpSeqno, cpDoc, cpAtRead, cpInstants, cpPrevFile, checkpointFile>>
    /\ UNCHANGED <<toolVars, differVars, unitVars, cfgVars, oldCheckpointFile, cmVars, streamVars, handlerVars,
                   vbCompleted, completedCount, savedDoc, periodicFile, mainVars, resumedFrom>>

\* the tool is run again with the checkpoint file last written as old checkpoint
Restart ==
    /\ resumedFrom = EmptyMap
    /\ checkpointFile # NoFile /\ driverState = "stopped"
    /\ oldCheckpointFile' = checkpointFile
    /\ resumedFrom' = savedDoc
    /\ cmState' = "new"
    /\ vbuuidMap' = EmptyMap
    /\ endSeqnoMap' = EmptyMap
    /\ startVBTS' = EmptyMap
    /\ seqnoMap' = [v \in Vbnos |-> 0]
    /\ snapshots' = [v \in Vbnos |-> [startSeqno |-> 0, endSeqno |-> 0]]
    /\ streamOpen' = [v \in Vbnos |-> FALSE]
    /\ streamSeqno' = [v \in Vbnos |-> 0]
    /\ streamSnapEnd' = [v \in Vbnos |-> 0]
    /\ dataChan' = <<>>
    /\ hpc' = "idle"
    /\ ev' = NoEvent
    /\ bucketMap' = [v \in Vbnos |-> [i \in 0 .. (NumberOfBins - 1) |-> {}]]
    /\ buckets' = [v \in Vbnos |-> [i \in 0 .. (NumberOfBins - 1) |-> NewBucket]]
    /\ dhFin' = FALSE
    /\ processed' = [v \in Vbnos |-> FALSE]
    /\ vbCompleted' = [v \in Vbnos |-> FALSE]
    /\ completedCount' = 0
    /\ errChan' = <<>>
    /\ mainPc' = "waiting"
    /\ cpPc' = "idle"
    /\ cpVb' = 0
    /\ cpSeqno' = 0
    /\ cpDoc' = EmptyMap
    /\ cpAtRead' = EmptyMap
    /\ cpInstants' = {}
    /\ savedDoc' = EmptyMap
    /\ checkpointFile' = NoFile
    /\ periodicFile' = NoFile
    /\ cpPrevFile' = NoFile
    /\ driverState' = "running"
    /\ UNCHANGED <<toolVars, differVars, unitVars, cfgVars>>

(***************************************************************************)
(* Specifications.  NextStage is one run of stage 1 up to the final        *)
(* checkpoint; the periodic checkpoint, the end of a stream and a second   *)
(* run are added where they are studied.  The checkpoint writer only reads *)
(* what the handler and the callbacks write.                               *)
(***************************************************************************)
NextStage ==
    \/ Start
    \/ \E vbno \in Vbnos : SnapshotMarker(vbno)
    \/ \E vbno \in Vbnos : Mutation(vbno)
    \/ TakeMutation
    \/ ProcessDataExit
    \/ HandleMutation
    \/ BucketWrite
    \/ SaveReadSeqno
    \/ SaveReadSnapshot
    \/ SaveOpen
    \/ SaveWrite
    \/ Wait
    \/ StopHandlers
    \/ CheckpointManagerStop

Next ==
    \/ NextStage
    \/ \E vbno \in Vbnos : End(vbno)
    \/ SaveBegin
    \/ SaveOpenFails
    \/ SaveWriteFails
    \/ Restart

Spec == Init /\ [][Next]_vars

\* a run with a new checkpoint file name and no file at that path
InitStage == Init /\ newCheckpointFileName # "" /\ checkpointFile = NoFile

\* the handler with and without a filter, in either mode
SpecHandler == InitStage /\ [][NextStage]_vars

\* periodic and final checkpoints of a run without filter
InitCheckpoint == InitStage /\ ~filter

NextCheckpoint ==
    \/ NextStage
    \/ SaveBegin

SpecCheckpoint == InitCheckpoint /\ [][NextCheckpoint]_vars

\* a run without filter, its final checkpoint, and the run resumed from it
NextResume ==
    \/ NextStage
    \/ Restart

SpecResume == InitCheckpoint /\ [][NextResume]_vars

(***************************************************************************)
(* The checkpoint document (SpecCheckpoint)                                *)
(***************************************************************************)

\* the entries of the document saveCheckpoint is about to marshal and write
DocToWrite == IF cpPc = "write" THEN DOMAIN cpDoc ELSE {}

StartPair(v) ==
    <<startVBTS[v].Checkpoint.SnapshotStartSeqno, startVBTS[v].Checkpoint.SnapshotEndSeqno>>

SavedPair(v) == <<cpDoc[v].SnapshotStartSeqno, cpDoc[v].SnapshotEndSeqno>>

\* C1: every checkpoint document written by saveCheckpoint, periodic or final,
\* has snapStart <= seqno <= snapEnd for every vbucket.
C1_SeqnoWithinSnapshot ==
    \A v \in DocToWrite :
        /\ cpDoc[v].SnapshotStartSeqno <= cpDoc[v].Seqno
        /\ cpDoc[v].Seqno <= cpDoc[v].SnapshotEndSeqno

\* C2: in every written checkpoint document, a vbucket of which no mutation had
\* been processed when its seqno was read has the snapshot pair of start VBTS,
\* whatever snapshot markers have been recorded for it.
C2_UnprocessedKeepsStartSnapshot ==
    \A v \in DocToWrite :
        ~cpAtRead[v].processed => SavedPair(v) = StartPair(v)

\* C2's case: a document with a vbucket that had a marker recorded and no
\* mutation processed when its seqno was read
C2_Witness ==
    \E v \in DocToWrite :
        /\ ~cpAtRead[v].processed
        /\ cpAtRead[v].marker
        /\ ~processed[v]
        /\ <<snapshots[v].startSeqno, snapshots[v].endSeqno>> # StartPair(v)

\* C3: when the checkpoint writer reads seqnoMap[v], every accepted mutation of v
\* with a seqno up to that value has been handed to its bin writer.
C3_SavedSeqnoIsBinned ==
    \A v \in DOMAIN cpAtRead : cpAtRead[v].unbinned = {}

(***************************************************************************)
(* Resuming from a checkpoint (SpecResume)                                 *)
(***************************************************************************)

Resumed == resumedFrom # EmptyMap /\ cmState = "started"

\* C4: a run started from a document that saveCheckpoint produced has, for every
\* vbucket, the saved quadruple as startVBTS[v].Checkpoint, and seqnoMap[v]
\* seeded to the saved seqno, from which the stream is opened.
C4_ResumeRoundTrip ==
    Resumed =>
        \A v \in Vbnos :
            /\ v \in DOMAIN startVBTS
            /\ startVBTS[v].Checkpoint = resumedFrom[v]
            /\ ~processed[v] => seqnoMap[v] = resumedFrom[v].Seqno
            /\ streamSeqno[v] >= resumedFrom[v].Seqno

\* C4's case: a resumed run whose document has a vbucket with progress
C4_Witness ==
    /\ Resumed
    /\ \E v \in Vbnos :
          /\ resumedFrom[v].Seqno > 0
          /\ resumedFrom[v].SnapshotEndSeqno > 0
          /\ ~processed[v]
          /\ streamOpen[v]

\* the number of entries of the old checkpoint document
OldDocEntries == Cardinality(DOMAIN Unmarshal(oldCheckpointFile.bytes))

\* C5: with an old checkpoint document of fewer or of more than NumberOfVbuckets
\* entries, Start fails with an error and no start VBTS is built.
C5_WrongSizeRejected ==
    (oldCheckpointFile # NoFile /\ OldDocEntries # NumberOfVbuckets /\ cmState # "new")
        => (cmState = "failed" /\ startVBTS = EmptyMap)

(***************************************************************************)
(* The handler (SpecHandler)                                               *)
(***************************************************************************)

\* every record handed to a bin writer
Binned == UNION {bucketMap[v][i] : v \in Vbnos, i \in 0 .. (NumberOfBins - 1)}

\* C6: in seqno mode a mutation with seqno > endSeqno[v] is written to no bin,
\* leaves every seqno and snapshot unchanged, and completion of v is signalled.
C6_OutOfRangeDrop ==
    /\ [](completeBySeqno => \A m \in Binned : m.seqno <= endSeqnoMap[m.vbno])
    /\ [][(HandleMutation /\ completeBySeqno
              /\ ev.mut.seqno > endSeqnoMap[ev.mut.vbno])
            => /\ seqnoMap' = seqnoMap
               /\ snapshots' = snapshots
               /\ bucketMap' = bucketMap
               /\ hpc' = "idle"
               /\ vbCompleted'[ev.mut.vbno]]_vars

\* C6's case: an out-of-range mutation has been handled
C6_Witness ==
    /\ completeBySeqno /\ ev.handled /\ hpc = "idle"
    /\ ev.mut.seqno > endSeqnoMap[ev.mut.vbno]
    /\ ~ev.binned /\ ev.mut \notin Binned
    /\ seqnoMap[ev.mut.vbno] = ev.prevSeqno
    /\ vbCompleted[ev.mut.vbno]

\* C7: in seqno mode HandleMutationEvent signals completion of v iff
\* m.seqno >= endSeqno[v], accepts m and sets seqnoMap[v] to m.seqno iff
\* m.seqno <= endSeqno[v], and drops m otherwise.
C7_Classification ==
    [][(HandleMutation /\ completeBySeqno) =>
          LET m == ev.mut
              endSeqno == endSeqnoMap[m.vbno]
          IN  /\ m.seqno >= endSeqno
                    => vbCompleted' = [vbCompleted EXCEPT ![m.vbno] = TRUE]
              /\ m.seqno < endSeqno => vbCompleted' = vbCompleted
              /\ m.seqno <= endSeqno
                    => /\ seqnoMap' = [seqnoMap EXCEPT ![m.vbno] = m.seqno]
                       /\ hpc' = "write"
              /\ m.seqno > endSeqno
                    => /\ seqnoMap' = seqnoMap
                       /\ hpc' = "idle"]_vars

\* C7's case: the mutation at exactly the end seqno is binned and completes v
C7_Witness ==
    /\ completeBySeqno /\ ev.binned /\ ev.mut \in Binned
    /\ ev.mut.seqno = endSeqnoMap[ev.mut.vbno]
    /\ seqnoMap[ev.mut.vbno] = ev.mut.seqno
    /\ vbCompleted[ev.mut.vbno]
    /\ \E v \in Vbnos : ~vbCompleted[v] /\ seqnoMap[v] > 0 /\ seqnoMap[v] < endSeqnoMap[v]

\* C8: in duration mode every mutation is recorded and accepted, no vbucket is
\* completed by HandleMutationEvent, and stage 1 ends only by the timer or an
\* error from the error channel.
C8_DurationMode ==
    /\ [](~completeBySeqno =>
             /\ mainPc \in {"waiting", "timer", "error"}
             /\ driverState # "running" => mainPc \in {"timer", "error"}
             /\ \A v \in Vbnos : ~vbCompleted[v])
    /\ [][(HandleMutation /\ ~completeBySeqno) =>
             /\ seqnoMap' = [seqnoMap EXCEPT ![ev.mut.vbno] = ev.mut.seqno]
             /\ hpc' = "write"
             /\ vbCompleted' = vbCompleted]_vars

\* C8's case: a mutation of the largest seqno was binned and the timer ended the stage
C8_Witness ==
    /\ ~completeBySeqno /\ ev.binned /\ ev.mut \in Binned
    /\ ev.mut.seqno = MaxUint64
    /\ mainPc = "timer" /\ driverState = "stopped"

\* C9: with a filter configured, a mutation the filter does not match, or fails
\* on, is written to no bin.
C9_FilteredNotBinned ==
    (filter /\ ev.binned) => ev.matched

\* C10: with a filter in seqno mode, a mutation the filter rejects is still
\* handed to HandleMutationEvent, which sets seqnoMap[v] when the seqno is in
\* range and signals completion when the seqno has reached endSeqno[v].
C10_FilteredStillAdvances ==
    [][/\ (TakeMutation /\ filter) => hpc' = "handle"
       /\ (HandleMutation /\ filter /\ ~ev.matched /\ completeBySeqno) =>
             /\ ev.mut.seqno <= endSeqnoMap[ev.mut.vbno]
                   => seqnoMap'[ev.mut.vbno] = ev.mut.seqno
             /\ ev.mut.seqno >= endSeqnoMap[ev.mut.vbno]
                   => vbCompleted'[ev.mut.vbno]]_vars

\* C10's case: the last mutation of a vbucket was rejected by the filter
C10_Witness ==
    /\ filter /\ completeBySeqno /\ ev.handled /\ ~ev.matched
    /\ ev.mut.seqno = endSeqnoMap[ev.mut.vbno]
    /\ seqnoMap[ev.mut.vbno] = ev.mut.seqno
    /\ vbCompleted[ev.mut.vbno]

(***************************************************************************)
(* The bin writers (SpecBins adds I/O failures of the flush in write)      *)
(***************************************************************************)
NextBins ==
    \/ NextStage
    \/ BucketWriteFails

SpecBins == InitCheckpoint /\ [][NextBins]_vars

\* the records that have reached the file of a bucket
Flushed(b) == {b.file[k] : k \in 1 .. Len(b.file)}

\* C11: a bin write that failed while the handler processed a mutation has put
\* its error on the shared error channel, from which the coordinator takes it;
\* the handler does not go on silently.
C11_BinWriteErrorIsFatal ==
    ev.writeErr => (errChan # <<>> \/ mainPc = "error")

\* C12: once DcpHandler.Stop has returned, every record that was passed to a bin
\* writer of the handler is in the bin file.
C12_StoppedHandlerIsFlushed ==
    dhFin =>
        \A v \in Vbnos : \A i \in 0 .. (NumberOfBins - 1) :
            bucketMap[v][i] \subseteq Flushed(buckets[v][i])


(***************************************************************************)
(* Mutation differ: one DifferWorker.  getResults issues a metadata get    *)
(* per key and side; each callback writes Key, Result, Error into its      *)
(* entry in three unsynchronised stores and then adds to its counter.      *)
(***************************************************************************)

isKeyNotFoundError(err) == err # "" /\ err = KeyNotFoundErrMsg

\* the comparison without the Deleted field
areGetMetaResultsTheSameButDeleted(result1, result2) ==
    IF result1 = <<>> THEN result2 = <<>>
    ELSE IF result2 = <<>> THEN FALSE
    ELSE /\ result1[1].Value = result2[1].Value
         /\ result1[1].Flags = result2[1].Flags
         /\ result1[1].Datatype = result2[1].Datatype
         /\ result1[1].Cas = result2[1].Cas
         /\ result1[1].Expiry = result2[1].Expiry
         /\ result1[1].SeqNo = result2[1].SeqNo

areGetMetaResultsTheSame(result1, result2) ==
    IF result1 = <<>> THEN result2 = <<>>
    ELSE IF result2 = <<>> THEN FALSE
    ELSE /\ result1[1].Value = result2[1].Value
         /\ result1[1].Flags = result2[1].Flags
         /\ result1[1].Datatype = result2[1].Datatype
         /\ result1[1].Cas = result2[1].Cas
         /\ result1[1].Expiry = result2[1].Expiry
         /\ result1[1].SeqNo = result2[1].SeqNo
         /\ result1[1].Deleted = result2[1].Deleted

\* the loop body of DifferWorker.diff: what becomes of one key
DiffOfKey(sourceResult, targetResult) ==
    IF sourceResult.Key = <<>> THEN "skip"
    ELSE IF targetResult.Key = <<>> THEN "skip"
    ELSE IF isKeyNotFoundError(sourceResult.Error)
            /\ ~isKeyNotFoundError(targetResult.Error) THEN "missingFromSource"
    ELSE IF ~isKeyNotFoundError(sourceResult.Error)
            /\ isKeyNotFoundError(targetResult.Error) THEN "missingFromTarget"
    ELSE IF ~areGetMetaResultsTheSame(sourceResult.Result, targetResult.Result) THEN "diff"
    ELSE "same"

KeysOf(outcome) ==
    {key \in DiffKeys : DiffOfKey(sourceResults[key], targetResults[key]) = outcome}

\* d.addDiff: the entries of m are stored over those of old
addDiff(old, m) ==
    [key \in DOMAIN old \cup DOMAIN m |-> IF key \in DOMAIN m THEN m[key] ELSE old[key]]

\* getResults up to its wait loop: fresh entries, one get per key and side
getResults ==
    /\ dwPc = "init"
    /\ dwPc' = "waiting"
    /\ sourceResults' = [key \in DiffKeys |-> EmptyGetResult]
    /\ targetResults' = [key \in DiffKeys |-> EmptyGetResult]
    /\ callbackPc' = [isSource \in BOOLEAN |-> [key \in DiffKeys |-> "issued"]]
    /\ UNCHANGED <<toolVars, stage1Vars, unitVars, response, sourceResultCount, targetResultCount, missingFromSource,
                   missingFromTarget, diff, readAtDiff>>

\* getCallbackFunc: resultsMap[key].Key = string(key)
CallbackSetKey(isSource, key) ==
    /\ callbackPc[isSource][key] = "issued"
    /\ \E r \in Responses : response' = [response EXCEPT ![isSource][key] = r]
    /\ IF isSource
       THEN /\ sourceResults' = [sourceResults EXCEPT ![key].Key = key]
            /\ UNCHANGED targetResults
       ELSE /\ targetResults' = [targetResults EXCEPT ![key].Key = key]
            /\ UNCHANGED sourceResults
    /\ callbackPc' = [callbackPc EXCEPT ![isSource][key] = "key"]
    /\ UNCHANGED <<toolVars, stage1Vars, unitVars, dwPc, sourceResultCount, targetResultCount, missingFromSource,
                   missingFromTarget, diff, readAtDiff>>

\* getCallbackFunc: resultsMap[key].Result = result
CallbackSetResult(isSource, key) ==
    /\ callbackPc[isSource][key] = "key"
    /\ IF isSource
       THEN /\ sourceResults' =
                   [sourceResults EXCEPT ![key].Result = response[isSource][key].result]
            /\ UNCHANGED targetResults
       ELSE /\ targetResults' =
                   [targetResults EXCEPT ![key].Result = response[isSource][key].result]
            /\ UNCHANGED sourceResults
    /\ callbackPc' = [callbackPc EXCEPT ![isSource][key] = "result"]
    /\ UNCHANGED <<toolVars, stage1Vars, unitVars, dwPc, response, sourceResultCount, targetResultCount,
                   missingFromSource, missingFromTarget, diff, readAtDiff>>

\* getCallbackFunc: resultsMap[key].Error = err, then the atomic add
CallbackSetError(isSource, key) ==
    /\ callbackPc[isSource][key] = "result"
    /\ IF isSource
       THEN /\ sourceResults' =
                   [sourceResults EXCEPT ![key].Error = response[isSource][key].err]
            /\ sourceResultCount' = sourceResultCount + 1
            /\ UNCHANGED <<targetResults, targetResultCount>>
       ELSE /\ targetResults' =
                   [targetResults EXCEPT ![key].Error = response[isSource][key].err]
            /\ targetResultCount' = targetResultCount + 1
            /\ UNCHANGED <<sourceResults, sourceResultCount>>
    /\ callbackPc' = [callbackPc EXCEPT ![isSource][key] = "done"]
    /\ UNCHANGED <<toolVars, stage1Vars, unitVars, dwPc, response, missingFromSource, missingFromTarget, diff, readAtDiff>>

\* getResults, case <-ticker.C: both counters have reached len(dw.keys)
TickerDone ==
    /\ dwPc = "waiting"
    /\ sourceResultCount = NumberOfKeys /\ targetResultCount = NumberOfKeys
    /\ dwPc' = "diff"
    /\ UNCHANGED <<toolVars, stage1Vars, unitVars, sourceResults, targetResults, callbackPc, response, sourceResultCount,
                   targetResultCount, missingFromSource, missingFromTarget, diff,
                   readAtDiff>>

\* getResults, case <-timer.C: "get timed out"
TimedOut ==
    /\ dwPc = "waiting"
    /\ dwPc' = "diff"
    /\ UNCHANGED <<toolVars, stage1Vars, unitVars, sourceResults, targetResults, callbackPc, response, sourceResultCount,
                   targetResultCount, missingFromSource, missingFromTarget, diff,
                   readAtDiff>>

\* DifferWorker.diff and the addDiff it ends with
DifferWorkerDiff ==
    /\ dwPc = "diff"
    /\ missingFromSource' =
           addDiff(missingFromSource,
                   [key \in KeysOf("missingFromSource") |-> targetResults[key].Result])
    /\ missingFromTarget' =
           addDiff(missingFromTarget,
                   [key \in KeysOf("missingFromTarget") |-> sourceResults[key].Result])
    /\ diff' =
           addDiff(diff, [key \in KeysOf("diff") |->
                             <<sourceResults[key].Result, targetResults[key].Result>>])
    /\ readAtDiff' = callbackPc
    /\ dwPc' = "done"
    /\ UNCHANGED <<toolVars, stage1Vars, unitVars, sourceResults, targetResults, callbackPc, response, sourceResultCount,
                   targetResultCount>>

NextDiffer ==
    \/ getResults
    \/ \E isSource \in BOOLEAN, key \in DiffKeys :
           CallbackSetKey(isSource, key)
    \/ \E isSource \in BOOLEAN, key \in DiffKeys :
           CallbackSetResult(isSource, key)
    \/ \E isSource \in BOOLEAN, key \in DiffKeys :
           CallbackSetError(isSource, key)
    \/ TickerDone
    \/ TimedOut
    \/ DifferWorkerDiff

InitDiffer == InitStage /\ completeBySeqno /\ ~filter /\ oldCheckpointFile = NoFile

SpecDiffer == InitDiffer /\ [][NextDiffer]_vars


\* the keys of the report's sections
Reported == DOMAIN missingFromSource \cup DOMAIN missingFromTarget \cup DOMAIN diff

\* both callbacks of the key had finished when diff read the results
Delivered(key) == readAtDiff[TRUE][key] = "done" /\ readAtDiff[FALSE][key] = "done"

IsMetadata(r) == r.result # <<>> /\ r.err = ""

\* C13: for a key both of whose responses were delivered: both key-not-found
\* puts it in no section; key-not-found on the source only puts it in
\* MissingFromSource, on the target only in MissingFromTarget; metadata on
\* both sides that differs in a compared field puts it in Mismatch with the
\* (source, target) pair; equal metadata puts it in no section.
C13_Classification ==
    dwPc = "done" =>
        \A key \in DiffKeys : Delivered(key) =>
            LET s == response[TRUE][key]
                t == response[FALSE][key]
                sKnf == s.err = KeyNotFoundErrMsg
                tKnf == t.err = KeyNotFoundErrMsg
            IN /\ (sKnf /\ tKnf) => key \notin Reported
               /\ (sKnf /\ ~tKnf) =>
                      /\ key \in DOMAIN missingFromSource
                      /\ key \notin DOMAIN missingFromTarget \cup DOMAIN diff
               /\ (~sKnf /\ tKnf) =>
                      /\ key \in DOMAIN missingFromTarget
                      /\ key \notin DOMAIN missingFromSource \cup DOMAIN diff
               /\ (IsMetadata(s) /\ IsMetadata(t) /\ s.result # t.result) =>
                      /\ key \in DOMAIN diff
                      /\ diff[key] = <<s.result, t.result>>
                      /\ key \notin DOMAIN missingFromSource \cup DOMAIN missingFromTarget
               /\ (IsMetadata(s) /\ IsMetadata(t) /\ s.result = t.result) =>
                      key \notin Reported

\* both sides delivered metadata that differs in the Deleted field only, and
\* the key is in Mismatch
C13_Witness ==
    /\ dwPc = "done"
    /\ \E key \in DiffKeys :
           /\ Delivered(key)
           /\ response[TRUE][key].result = <<BaseMeta>>
           /\ response[FALSE][key].result = <<[BaseMeta EXCEPT !.Deleted = 1]>>
           /\ key \in DOMAIN diff

\* C14: a key one of whose responses was not completely delivered when the
\* worker went on to classify is in no section of the report.
C14_UndeliveredIsSkipped ==
    dwPc = "done" => \A key \in DiffKeys : ~Delivered(key) => key \notin Reported

\* C15: a key whose delivered response is, on either side, an error other
\* than key-not-found is in no section of the report.
C15_FetchErrorIsSkipped ==
    dwPc = "done" =>
        \A key \in DiffKeys :
            (/\ Delivered(key)
             /\ \/ response[TRUE][key].err = OtherErrMsg
                \/ response[FALSE][key].err = OtherErrMsg) => key \notin Reported


(***************************************************************************)
(* The coordinator: main, generateDataFiles, the wait for stage 1 and the  *)
(* interrupt handler, over two drivers seen from outside.  The select of   *)
(* waitForCompletion / waitForDuration takes a ready case when it is       *)
(* evaluated and otherwise parks; a parked select is woken by the first    *)
(* case that becomes ready.                                                *)
(***************************************************************************)

ProcessRuns == exitCode = -1

\* a close of a closed channel has panicked
Crashed(d) == \E side \in Sides : d[side].panicked

\* DcpDriver.Stop without its test of the state: the finish channels of the
\* driver, of CheckpointManager.Stop and of DcpHandler.Stop are closed again
DriverStopUnguarded(d) ==
    IF d.finChanClosed THEN [d EXCEPT !.panicked = TRUE]
    ELSE [d EXCEPT !.state = "stopped", !.finChanClosed = TRUE,
                   !.finalCheckpoints = IF d.state = "started" THEN @ + 1 ELSE @]

\* DcpDriver.Stop: once per driver; CheckpointManager.Stop saves the final
\* checkpoint of a started manager; every finish channel is closed
DriverStop(d) ==
    IF d.state = "stopped" THEN d
    ELSE [d EXCEPT !.state = "stopped", !.finChanClosed = TRUE,
                   !.finalCheckpoints = IF d.state = "started" THEN @ + 1 ELSE @]

\* the drivers after Stop has been called on each driver of sides
StopDrivers(d, sides) == [side \in Sides |-> IF side \in sides THEN DriverStop(d[side]) ELSE d[side]]

CountStops(sides) == [side \in Sides |-> stopCalls[side] + (IF side \in sides THEN 1 ELSE 0)]

\* an error is offered to the error channel; a parked select takes it at once
PlaceError(err) ==
    /\ errChan' = AddToErrorChan(errChan, err)
    /\ IF toolPc = "parked" /\ errChan = <<>>
       THEN /\ wake' = "err"
            /\ toolPc' = "woken"
            /\ placedWhileWaiting' = TRUE
       ELSE UNCHANGED <<wake, toolPc, placedWhileWaiting>>

\* os.Exit(code)
Exit(code) == exitCode' = code

\* argParse: the options of this run
argParse ==
    /\ ProcessRuns /\ toolPc = "argParse"
    /\ options' \in Options
    /\ toolPc' = "specInfo"
    /\ UNCHANGED <<detailVars, differVars, unitVars, errChan, curState, drv, exitCode,
                   interrupts, ready, wake, stage1Err, log, failed, placedWhileWaiting,
                   coordStops, stopCalls, interruptLog>>

\* main: retrieveReplicationSpecInfo (or the temporary spec), then the first
\* enabled stage
SpecInfo ==
    /\ ProcessRuns /\ toolPc = "specInfo"
    /\ \/ /\ Exit(1)
          /\ failed' = failed \cup {"config"}
          /\ UNCHANGED toolPc
       \/ /\ toolPc' = IF options.runDataGeneration THEN "generate" ELSE "fileDiffer"
          /\ UNCHANGED <<exitCode, failed>>
    /\ UNCHANGED <<detailVars, differVars, unitVars, errChan, options, curState, drv, interrupts,
                   ready, wake, stage1Err, log, placedWhileWaiting, coordStops,
                   stopCalls, interruptLog>>

\* generateDataFiles up to the first driver: the mode check, cleanUpAndSetup,
\* createFilterIfNecessary
GenerateSetup ==
    /\ ProcessRuns /\ toolPc = "generate"
    /\ IF options.completeByDuration = 0 /\ ~completeBySeqno
       THEN /\ Exit(1)
            /\ failed' = failed \cup {"config"}
            /\ UNCHANGED toolPc
       ELSE \/ /\ Exit(1)
               /\ failed' = failed \cup {"stage1"}
               /\ UNCHANGED toolPc
            \/ /\ toolPc' = "startSource"
               /\ UNCHANGED <<exitCode, failed>>
    /\ UNCHANGED <<detailVars, differVars, unitVars, errChan, options, curState, drv, interrupts,
                   ready, wake, stage1Err, log, placedWhileWaiting, coordStops,
                   stopCalls, interruptLog>>

\* generateDataFiles without the sleep between the two drivers
AfterStartSourceNoDelay == "startTarget"

\* generateDataFiles: what follows the start of the source driver
AfterStartSource == "delay"

\* generateDataFiles: difftool.sourceDcpDriver = startDcpDriver(...)
StartSource ==
    /\ ProcessRuns /\ toolPc = "startSource"
    /\ drv' = [drv EXCEPT !["source"] = NewDcpDriver]
    /\ log' = Append(log, "sourceStarted")
    /\ toolPc' = AfterStartSource
    /\ UNCHANGED <<detailVars, differVars, unitVars, errChan, options, curState, exitCode,
                   interrupts, ready, wake, stage1Err, failed, placedWhileWaiting,
                   coordStops, stopCalls, interruptLog>>

\* generateDataFiles: time.Sleep(delayDurationBetweenSourceAndTarget)
Delay ==
    /\ ProcessRuns /\ toolPc = "delay"
    /\ log' = Append(log, "delayElapsed")
    /\ toolPc' = "startTarget"
    /\ UNCHANGED <<detailVars, differVars, unitVars, errChan, options, curState, drv, exitCode,
                   interrupts, ready, wake, stage1Err, failed, placedWhileWaiting,
                   coordStops, stopCalls, interruptLog>>

\* generateDataFiles: difftool.targetDcpDriver = startDcpDriver(...)
StartTarget ==
    /\ ProcessRuns /\ toolPc = "startTarget"
    /\ drv' = [drv EXCEPT !["target"] = NewDcpDriver]
    /\ log' = Append(log, "targetStarted")
    /\ toolPc' = "setDriving"
    /\ UNCHANGED <<detailVars, differVars, unitVars, errChan, options, curState, exitCode,
                   interrupts, ready, wake, stage1Err, failed, placedWhileWaiting,
                   coordStops, stopCalls, interruptLog>>

\* generateDataFiles: curState.state = dcpDriving, under curState.mtx
SetDcpDriving ==
    /\ ProcessRuns /\ toolPc = "setDriving"
    /\ curState' = "dcpDriving"
    /\ toolPc' = "wait"
    /\ UNCHANGED <<detailVars, differVars, unitVars, errChan, options, drv, exitCode, interrupts,
                   ready, wake, stage1Err, log, failed, placedWhileWaiting, coordStops,
                   stopCalls, interruptLog>>

\* startDcpDriverAysnc: dcpDriver.Start(), its error to the error channel
startDcpDriverAysnc(side) ==
    /\ ProcessRuns /\ drv[side].state = "new"
    /\ \/ /\ drv' = [drv EXCEPT ![side].state = "started"]
          /\ UNCHANGED <<errChan, wake, toolPc, placedWhileWaiting>>
       \/ /\ drv' = [drv EXCEPT ![side].state = "startFailed"]
          /\ PlaceError("start")
    /\ UNCHANGED <<detailVars, differVars, unitVars, options, curState, exitCode, interrupts,
                   ready, stage1Err, log, failed, coordStops, stopCalls, interruptLog>>

\* a started driver reports a fatal error
DriverError(side) ==
    /\ ProcessRuns /\ drv[side].state = "started"
    /\ errChan = <<>>
    /\ PlaceError("stream")
    /\ UNCHANGED <<detailVars, differVars, unitVars, options, curState, drv, exitCode,
                   interrupts, ready, stage1Err, log, failed, coordStops, stopCalls,
                   interruptLog>>

\* seqno mode: every vbucket of the driver has completed and the driver stops
DriverCompletes(side) ==
    /\ ProcessRuns /\ completeBySeqno /\ drv[side].state = "started"
    /\ drv' = StopDrivers(drv, {side})
    /\ stopCalls' = CountStops({side})
    /\ exitCode' = IF Crashed(drv') THEN 2 ELSE exitCode
    /\ UNCHANGED <<detailVars, differVars, unitVars, errChan, options, toolPc, curState,
                   interrupts, ready, wake, stage1Err, log, failed, placedWhileWaiting,
                   coordStops, interruptLog>>

\* the cases of the select that are ready
ReadyCases == (IF errChan # <<>> THEN {"err"} ELSE {}) \cup ready

\* waitForCompletion / waitForDuration: the select is evaluated
SelectEnter ==
    /\ ProcessRuns /\ toolPc = "wait"
    /\ IF ReadyCases = {}
       THEN /\ toolPc' = "parked"
            /\ UNCHANGED wake
       ELSE /\ \E c \in ReadyCases : wake' = c
            /\ toolPc' = "woken"
    /\ UNCHANGED <<detailVars, differVars, unitVars, errChan, options, curState, drv, exitCode,
                   interrupts, ready, stage1Err, log, failed, placedWhileWaiting,
                   coordStops, stopCalls, interruptLog>>

\* waitForDuration: timer.C fires
TimerFires ==
    /\ ProcessRuns /\ ~completeBySeqno /\ "timer" \notin ready
    /\ \/ /\ toolPc = "wait"
          /\ ready' = ready \cup {"timer"}
          /\ UNCHANGED <<wake, toolPc>>
       \/ /\ toolPc = "parked"
          /\ ready' = ready \cup {"timer"}
          /\ wake' = "timer"
          /\ toolPc' = "woken"
    /\ UNCHANGED <<detailVars, differVars, unitVars, errChan, options, curState, drv, exitCode,
                   interrupts, stage1Err, log, failed, placedWhileWaiting, coordStops,
                   stopCalls, interruptLog>>

\* utils.WaitForWaitGroup: both drivers are done, doneChan gets its value
WaitForWaitGroup ==
    /\ ProcessRuns /\ completeBySeqno /\ "done" \notin ready
    /\ \A side \in Sides : drv[side].state = "stopped"
    /\ \/ /\ toolPc = "wait"
          /\ ready' = ready \cup {"done"}
          /\ UNCHANGED <<wake, toolPc>>
       \/ /\ toolPc = "parked"
          /\ ready' = ready \cup {"done"}
          /\ wake' = "done"
          /\ toolPc' = "woken"
    /\ UNCHANGED <<detailVars, differVars, unitVars, errChan, options, curState, drv, exitCode,
                   interrupts, stage1Err, log, failed, placedWhileWaiting, coordStops,
                   stopCalls, interruptLog>>

\* the case taken returns at once, whatever it is
AfterSelectNoStop(bySeqno, case) == "return"

\* waitForCompletion returns on doneChan and stops the drivers on an error;
\* waitForDuration stops them on either case
AfterSelect(bySeqno, case) == IF bySeqno /\ case = "done" THEN "return" ELSE "stopSource"

\* waitForCompletion / waitForDuration: the body of the case taken
SelectCase ==
    /\ ProcessRuns /\ toolPc = "woken"
    /\ IF wake = "err"
       THEN /\ stage1Err' = Head(errChan)
            /\ errChan' = Tail(errChan)
       ELSE UNCHANGED <<stage1Err, errChan>>
    /\ toolPc' = AfterSelect(completeBySeqno, wake)
    /\ UNCHANGED <<detailVars, differVars, unitVars, options, curState, drv, exitCode,
                   interrupts, ready, wake, log, failed, placedWhileWaiting,
                   coordStops, stopCalls, interruptLog>>

\* waitForCompletion / waitForDuration: sourceDcpDriver.Stop()
StopSource ==
    /\ ProcessRuns /\ toolPc = "stopSource"
    /\ drv' = StopDrivers(drv, {"source"})
    /\ stopCalls' = CountStops({"source"})
    /\ coordStops' = coordStops \cup {"source"}
    /\ exitCode' = IF Crashed(drv') THEN 2 ELSE exitCode
    /\ toolPc' = "stopTarget"
    /\ UNCHANGED <<detailVars, differVars, unitVars, errChan, options, curState, interrupts,
                   ready, wake, stage1Err, log, failed, placedWhileWaiting,
                   interruptLog>>

\* waitForCompletion / waitForDuration: targetDcpDriver.Stop()
StopTarget ==
    /\ ProcessRuns /\ toolPc = "stopTarget"
    /\ drv' = StopDrivers(drv, {"target"})
    /\ stopCalls' = CountStops({"target"})
    /\ coordStops' = coordStops \cup {"target"}
    /\ exitCode' = IF Crashed(drv') THEN 2 ELSE exitCode
    /\ toolPc' = "return"
    /\ UNCHANGED <<detailVars, differVars, unitVars, errChan, options, curState, interrupts,
                   ready, wake, stage1Err, log, failed, placedWhileWaiting,
                   interruptLog>>

\* generateDataFiles returns err to main
Stage1Return ==
    /\ ProcessRuns /\ toolPc = "return"
    /\ log' = Append(log, "stage1Returned")
    /\ IF stage1Err # ""
       THEN /\ Exit(1)
            /\ failed' = failed \cup {"stage1"}
            /\ UNCHANGED toolPc
       ELSE /\ toolPc' = "fileDiffer"
            /\ UNCHANGED <<exitCode, failed>>
    /\ UNCHANGED <<detailVars, differVars, unitVars, errChan, options, curState, drv, interrupts,
                   ready, wake, stage1Err, placedWhileWaiting, coordStops, stopCalls,
                   interruptLog>>

\* main: diffDataFiles is called when options.runFileDiffer
FileDifferStart ==
    /\ ProcessRuns /\ toolPc = "fileDiffer"
    /\ IF options.runFileDiffer
       THEN /\ log' = Append(log, "fileDifferStarted")
            /\ toolPc' = "fileDiffing"
       ELSE /\ toolPc' = "mutationDiffer"
            /\ UNCHANGED log
    /\ UNCHANGED <<detailVars, differVars, unitVars, errChan, options, curState, drv, exitCode,
                   interrupts, ready, wake, stage1Err, failed, placedWhileWaiting,
                   coordStops, stopCalls, interruptLog>>

\* main: diffDataFiles returns; its error ends the process
FileDifferReturn ==
    /\ ProcessRuns /\ toolPc = "fileDiffing"
    /\ log' = Append(log, "fileDifferReturned")
    /\ \/ /\ Exit(1)
          /\ failed' = failed \cup {"fileDiffer"}
          /\ UNCHANGED toolPc
       \/ /\ toolPc' = "mutationDiffer"
          /\ UNCHANGED <<exitCode, failed>>
    /\ UNCHANGED <<detailVars, differVars, unitVars, errChan, options, curState, drv, interrupts,
                   ready, wake, stage1Err, placedWhileWaiting, coordStops, stopCalls,
                   interruptLog>>

\* main: runMutationDiffer is called when options.runMutationDiffer; main
\* returns otherwise
MutationDifferStart ==
    /\ ProcessRuns /\ toolPc = "mutationDiffer"
    /\ IF options.runMutationDiffer
       THEN /\ log' = Append(log, "mutationDifferStarted")
            /\ toolPc' = "mutationDiffing"
            /\ UNCHANGED exitCode
       ELSE /\ Exit(0)
            /\ UNCHANGED <<log, toolPc>>
    /\ UNCHANGED <<detailVars, differVars, unitVars, errChan, options, curState, drv, interrupts,
                   ready, wake, stage1Err, failed, placedWhileWaiting, coordStops,
                   stopCalls, interruptLog>>

\* runMutationDiffer returns nothing: the error of MkdirAll or of
\* mutationDiffer.Run is logged; main returns
MutationDifferReturn ==
    /\ ProcessRuns /\ toolPc = "mutationDiffing"
    /\ \/ failed' = failed \cup {"mutationDiffer"}
       \/ UNCHANGED failed
    /\ Exit(0)
    /\ UNCHANGED <<detailVars, differVars, unitVars, errChan, options, toolPc, curState, drv,
                   interrupts, ready, wake, stage1Err, log, placedWhileWaiting,
                   coordStops, stopCalls, interruptLog>>

Stage1Pcs ==
    {"startSource", "delay", "startTarget", "setDriving", "wait", "parked", "woken",
     "stopSource", "stopTarget", "return"}

\* what an interrupt finds and does
InterruptRecord(exits) ==
    [inStage1 |-> toolPc \in Stage1Pcs,
     started |-> {side \in Sides : drv[side].state # "nil"},
     exits |-> exits]

\* monitorInterruptSignal: the handler of one interrupt, under curState.mtx
Interrupt ==
    /\ ProcessRuns /\ interrupts < MaxInterrupts
    /\ interrupts' = interrupts + 1
    /\ IF curState = "dcpDriving"
       THEN /\ drv' = StopDrivers(drv, Sides)
            /\ stopCalls' = CountStops(Sides)
            /\ curState' = "finStateFinal"
            /\ exitCode' = IF Crashed(drv') THEN 2 ELSE exitCode
            /\ interruptLog' = Append(interruptLog, InterruptRecord(FALSE))
       ELSE /\ Exit(0)
            /\ interruptLog' = Append(interruptLog, InterruptRecord(TRUE))
            /\ UNCHANGED <<drv, stopCalls, curState>>
    /\ UNCHANGED <<detailVars, differVars, unitVars, errChan, options, toolPc, ready, wake,
                   stage1Err, log, failed, placedWhileWaiting, coordStops>>

NextMain ==
    \/ argParse
    \/ SpecInfo
    \/ GenerateSetup
    \/ StartSource
    \/ Delay
    \/ StartTarget
    \/ SetDcpDriving
    \/ \E side \in Sides : startDcpDriverAysnc(side)
    \/ \E side \in Sides : DriverError(side)
    \/ \E side \in Sides : DriverCompletes(side)
    \/ SelectEnter
    \/ TimerFires
    \/ WaitForWaitGroup
    \/ SelectCase
    \/ StopSource
    \/ StopTarget
    \/ Stage1Return
    \/ FileDifferStart
    \/ FileDifferReturn
    \/ MutationDifferStart
    \/ MutationDifferReturn
    \/ Interrupt

InitMain == InitStage /\ ~filter /\ oldCheckpointFile = NoFile

SpecMain == InitMain /\ [][NextMain]_vars


\* the steps of the main goroutine from the wake of its select to the return of
\* generateDataFiles
MainGoroutine ==
    \/ SelectCase
    \/ StopSource
    \/ StopTarget
    \/ Stage1Return

\* the main goroutine, when it can run, gets to run
SpecMainFair == SpecMain /\ WF_vars(MainGoroutine)

\* C16: the first interrupt, when it comes during stage 1 after a driver has
\* been started, does not end the process; an interrupt ends the process
\* only when no driver has been started or when it is the second one.
C16_FirstInterruptStopsDrivers ==
    \A i \in 1 .. Len(interruptLog) :
        /\ (i = 1 /\ interruptLog[i].inStage1 /\ interruptLog[i].started # {})
               => ~interruptLog[i].exits
        /\ interruptLog[i].exits => (interruptLog[i].started = {} \/ i = 2)

IsPrefix(s1, s2) == Len(s1) <= Len(s2) /\ s1 = SubSeq(s2, 1, Len(s1))

\* the stage events of a run with options o, in the order of the design
ExpectedLog(o) ==
    (IF o.runDataGeneration
     THEN <<"sourceStarted", "delayElapsed", "targetStarted", "stage1Returned">>
     ELSE <<>>) \o
    (IF o.runFileDiffer THEN <<"fileDifferStarted", "fileDifferReturned">> ELSE <<>>) \o
    (IF o.runMutationDiffer THEN <<"mutationDifferStarted">> ELSE <<>>)

\* C17: the stage events happen in the order source start, delay, target
\* start, return of stage 1, file differ, return of the file differ, mutation
\* differ, the events of a disabled stage being left out.
C17_StageOrder == IsPrefix(log, ExpectedLog(options))

\* every stage enabled and run to the start of the mutation differ
C17_Witness ==
    /\ options.runDataGeneration /\ options.runFileDiffer /\ options.runMutationDiffer
    /\ log = ExpectedLog(options)

\* C18: a process that ends without an interrupt ends with exit code 1 if a
\* stage failed or the configuration was invalid, and with 0 otherwise.
C18_ExitCode ==
    (exitCode # -1 /\ interrupts = 0) => (exitCode = 1 <=> failed # {})

\* stage 1 has returned the error after waitFor* called Stop on both drivers
ReturnedError ==
    /\ \E k \in 1 .. Len(log) : log[k] = "stage1Returned"
    /\ stage1Err # ""
    /\ coordStops = Sides

\* the last interrupt has ended the process
InterruptExit == interruptLog # <<>> /\ interruptLog[Len(interruptLog)].exits

\* C19: an error placed on the error channel while the coordinator is parked
\* in its select leads to Stop on both drivers and the return of the error,
\* unless an interrupt ends the process first.
C19_ErrorStopsBothDrivers == placedWhileWaiting ~> (ReturnedError \/ InterruptExit)

\* an error woke the select in duration mode and stage 1 returned it
C19_Witness == placedWhileWaiting /\ ReturnedError /\ ~completeBySeqno

StatsFailed == cmState = "failed" /\ vbuuidMap = EmptyMap

\* C21: after a stats request that failed on every attempt the manager is not
\* started, no checkpoint is being taken, the error is on the error channel
\* or with the coordinator, and no checkpoint file is written, Stop included.
C21_StatsFailureAbortsStart ==
    StatsFailed =>
        /\ ~Running
        /\ cpPc = "idle"
        /\ errChan # <<>> \/ mainPc = "error"
        /\ checkpointFile = NoFile

\* the stats request failed and the checkpoint manager has been stopped since
C21_Witness == StatsFailed /\ driverState = "stopped"


(***************************************************************************)
(* The checkpoint files (SpecNoPath, SpecSave)                             *)
(***************************************************************************)

\* a run in seqno mode for which no new checkpoint file was configured
InitNoPath ==
    /\ Init /\ ~filter /\ completeBySeqno /\ oldCheckpointFile = NoFile
    /\ newCheckpointFileName = "" /\ checkpointFile = NoFile

SpecNoPath == InitNoPath /\ [][NextCheckpoint]_vars

\* C22: with no new checkpoint file configured no checkpoint file is written,
\* neither by the final save on Stop nor by the periodic checkpoints.
C22_NoPathNoFile ==
    newCheckpointFileName = "" => checkpointFile = NoFile /\ periodicFile = NoFile

\* a run in seqno mode with a new checkpoint file, over a previous file or none
InitSave ==
    /\ Init /\ ~filter /\ completeBySeqno /\ oldCheckpointFile = NoFile
    /\ newCheckpointFileName # ""

\* a run and its final save, which may fail at os.OpenFile or at Write
NextSave ==
    \/ NextStage
    \/ SaveOpenFails
    \/ SaveWriteFails

SpecSave == InitSave /\ [][NextSave]_vars

\* the file holds a whole checkpoint document, one entry for every vbucket
IsCompleteDocument(file) ==
    /\ file.exists
    /\ {Atoi(entry[1]) : entry \in file.bytes} = Vbnos

\* C23: during the final save and after it, failed or not, the checkpoint path
\* holds the complete previous document or a complete new one.
C23_AtomicReplace ==
    driverState \in {"finalSave", "stopped"} =>
        checkpointFile = cpPrevFile \/ IsCompleteDocument(checkpointFile)

(***************************************************************************)
(* Vbuckets that need no stream (SpecResume)                               *)
(***************************************************************************)

\* the seqno the loaded checkpoint document holds for vbno
LoadedSeqno(vbno) == Unmarshal(oldCheckpointFile.bytes)[vbno].Seqno

\* C24: once the start VBTS are built, a vbucket needs no stream exactly when
\* the run is in seqno mode, a checkpoint was loaded and its seqno for the
\* vbucket has reached the end seqno; such a vbucket is complete, has no
\* stream and delivers nothing.
C24_NoStreamNeeded ==
    cmState = "started" =>
        \A v \in Vbnos :
            /\ startVBTS[v].NoNeedToStartDcpStream <=>
                   /\ completeBySeqno
                   /\ oldCheckpointFile # NoFile
                   /\ LoadedSeqno(v) >= endSeqnoMap[v]
            /\ startVBTS[v].NoNeedToStartDcpStream =>
                   /\ vbCompleted[v]
                   /\ ~streamOpen[v]
                   /\ streamSeqno[v] = LoadedSeqno(v)

\* a loaded checkpoint that has reached the end seqno of one vbucket only
C24_Witness ==
    /\ cmState = "started" /\ oldCheckpointFile # NoFile
    /\ \E v, w \in Vbnos :
          /\ startVBTS[v].NoNeedToStartDcpStream
          /\ ~startVBTS[w].NoNeedToStartDcpStream


(***************************************************************************)
(* Completion of a vbucket (SpecCompletion)                                *)
(***************************************************************************)

\* a run in seqno mode without filter and without old checkpoint
InitCompletion == InitCheckpoint /\ completeBySeqno /\ oldCheckpointFile = NoFile

\* the run up to the stop of the handlers; streams end, at their end seqno or
\* with an error
NextCompletion ==
    \/ Start
    \/ \E vbno \in Vbnos : SnapshotMarker(vbno)
    \/ \E vbno \in Vbnos : Mutation(vbno)
    \/ TakeMutation
    \/ ProcessDataExit
    \/ HandleMutation
    \/ BucketWrite
    \/ \E vbno \in Vbnos : End(vbno)
    \/ Wait
    \/ StopHandlers

SpecCompletion == InitCompletion /\ [][NextCompletion]_vars

UPR_MUTATION == 87
UPR_DELETION == 88
UPR_EXPIRATION == 89

\* sha512.Size, the length of a digest in bytes
HashLength == 64

\* binary.BigEndian.PutUint16 / PutUint32 / PutUint64: n in width bytes
RECURSIVE BigEndian(_, _)
BigEndian(n, width) ==
    IF width = 0 THEN <<>>
    ELSE Append(BigEndian(n \div 256, width - 1), n % 256)

\* binary.BigEndian.Uint16 / Uint32 / Uint64: the number a byte string encodes
RECURSIVE Uint(_)
Uint(bytes) ==
    IF bytes = <<>> THEN 0
    ELSE 256 * Uint(SubSeq(bytes, 1, Len(bytes) - 1)) + bytes[Len(bytes)]

RECURSIVE SumBytes(_)
SumBytes(bytes) == IF bytes = <<>> THEN 0 ELSE Head(bytes) + SumBytes(Tail(bytes))

\* a stand-in for sha512.Sum512: HashLength bytes computed from the value
Sum512(value) ==
    [i \in 1 .. HashLength |-> (Len(value) + i * SumBytes(value)) % 256]

\* CreateMutation: the struct literal names every field but datatype, which
\* keeps its zero value
CreateMutation(vbno, key, seqno, revId, cas, flags, expiry, opCode, value, datatype) ==
    [vbno |-> vbno, key |-> key, seqno |-> seqno, revId |-> revId, cas |-> cas,
     flags |-> flags, expiry |-> expiry, opCode |-> opCode, value |-> value,
     datatype |-> 0]

\* serializeMutation: keyLen, key, seqno, revId, cas, flags, expiry, opCode,
\* datatype, body hash
serializeMutation(mut) ==
    BigEndian(Len(mut.key), 2) \o mut.key
        \o BigEndian(mut.seqno, 8) \o BigEndian(mut.revId, 8) \o BigEndian(mut.cas, 8)
        \o BigEndian(mut.flags, 4) \o BigEndian(mut.expiry, 4)
        \o BigEndian(mut.opCode, 2) \o BigEndian(mut.datatype, 2)
        \o Sum512(mut.value)

\* what the stream delivers
Keys == {<<1>>, <<1, 2>>}
Values == {<<>>, <<7>>}
Uint64s == {1, 258}
Uint32s == {0, 258}
Datatypes == {0, 3}

\* DcpHandler.Mutation, up to the record its event becomes
DcpHandlerMutation ==
    \E seqno, revId, cas \in Uint64s : \E flags, expiry \in Uint32s :
    \E datatype \in Datatypes : \E vbno \in Vbnos : \E key \in Keys : \E value \in Values :
        /\ delivered' = [op |-> "Mutation", vbno |-> vbno, key |-> key, seqno |-> seqno,
                         revId |-> revId, cas |-> cas, flags |-> flags,
                         expiry |-> expiry, datatype |-> datatype, value |-> value]
        /\ binned' = serializeMutation(CreateMutation(vbno, key, seqno, revId, cas, flags,
                                                      expiry, UPR_MUTATION, value, datatype))
        /\ UNCHANGED <<toolVars, differVars, stage1Vars, workVars>>

\* DcpHandler.Deletion, up to the record its event becomes
DcpHandlerDeletion ==
    \E seqno, revId, cas \in Uint64s :
    \E datatype \in Datatypes : \E vbno \in Vbnos : \E key \in Keys : \E value \in Values :
        /\ delivered' = [op |-> "Deletion", vbno |-> vbno, key |-> key, seqno |-> seqno,
                         revId |-> revId, cas |-> cas, datatype |-> datatype,
                         value |-> value]
        /\ binned' = serializeMutation(CreateMutation(vbno, key, seqno, revId, cas, 0, 0,
                                                      UPR_DELETION, value, datatype))
        /\ UNCHANGED <<toolVars, differVars, stage1Vars, workVars>>

\* DcpHandler.Expiration, up to the record its event becomes
DcpHandlerExpiration ==
    \E seqno, revId, cas \in Uint64s : \E vbno \in Vbnos : \E key \in Keys :
        /\ delivered' = [op |-> "Expiration", vbno |-> vbno, key |-> key, seqno |-> seqno,
                         revId |-> revId, cas |-> cas]
        /\ binned' = serializeMutation(CreateMutation(vbno, key, seqno, revId, cas, 0, 0,
                                                      UPR_EXPIRATION, <<>>, 0))
        /\ UNCHANGED <<toolVars, differVars, stage1Vars, workVars>>

NextRecord ==
    \/ DcpHandlerMutation
    \/ DcpHandlerDeletion
    \/ DcpHandlerExpiration

\* the events of one handler, whatever the run's configuration
InitRecord == InitStage /\ ~filter /\ completeBySeqno /\ oldCheckpointFile = NoFile

SpecRecord == InitRecord /\ [][NextRecord]_vars

\* the fields of a binned record, read back by the layout of serializeMutation:
\* after the key come seqno, revId and cas (8 bytes each), flags and expiry
\* (4 each), opCode and datatype (2 each) and the body hash
KeyLenOf(rec) == Uint(SubSeq(rec, 1, 2))
KeyOf(rec) == SubSeq(rec, 3, 2 + KeyLenOf(rec))
FieldOf(rec, offset, width) ==
    Uint(SubSeq(rec, 2 + KeyLenOf(rec) + offset + 1, 2 + KeyLenOf(rec) + offset + width))
BodyHashOf(rec) == SubSeq(rec, 2 + KeyLenOf(rec) + 36 + 1, Len(rec))

\* the command code of the event a callback stands for
OpCodeOfCallback(op) ==
    CASE op = "Mutation" -> UPR_MUTATION
      [] op = "Deletion" -> UPR_DELETION
      [] op = "Expiration" -> UPR_EXPIRATION

\* C26: the binned record carries the key, seqno, revId, cas, flags, expiry,
\* opCode and datatype the stream callback delivered, unchanged.
C26_FieldsUnchanged ==
    binned # <<>> =>
        /\ KeyOf(binned) = delivered.key
        /\ FieldOf(binned, 0, 8) = delivered.seqno
        /\ FieldOf(binned, 8, 8) = delivered.revId
        /\ FieldOf(binned, 16, 8) = delivered.cas
        /\ FieldOf(binned, 32, 2) = OpCodeOfCallback(delivered.op)
        /\ delivered.op = "Mutation" =>
               /\ FieldOf(binned, 24, 4) = delivered.flags
               /\ FieldOf(binned, 28, 4) = delivered.expiry
        /\ delivered.op \in {"Mutation", "Deletion"} =>
               FieldOf(binned, 34, 2) = delivered.datatype

\* C27: the body hash of the binned record of a deletion or an expiration is
\* the digest of the empty value, whatever value the callback delivered.
C27_EmptyBodyHash ==
    (binned # <<>> /\ delivered.op \in {"Deletion", "Expiration"}) =>
        BodyHashOf(binned) = Sum512(<<>>)


(***************************************************************************)
(* The processed seqno of a vbucket (SpecResume)                           *)
(***************************************************************************)

\* the larger of two seqnos
MaxSeqno(a, b) == IF a >= b THEN a ELSE b

\* C28: when the handler has processed and accepted a mutation of a vbucket,
\* the seqno of that vbucket is the larger of its seqno before and the
\* mutation's; within a run, the first as the resumed one, no seqno decreases.
C28_SeqnoIsMax ==
    [][/\ (hpc = "handle" /\ hpc' = "write") =>
              seqnoMap'[ev.mut.vbno] = MaxSeqno(seqnoMap[ev.mut.vbno], ev.mut.seqno)
       /\ resumedFrom' = resumedFrom =>
              \A v \in Vbnos : seqnoMap'[v] >= seqnoMap[v]]_vars

\* the resumed run has accepted a mutation beyond the seqno it was seeded with
C28_Witness ==
    /\ resumedFrom # EmptyMap
    /\ ev.handled /\ ev.valid
    /\ ev.prevSeqno > 0
    /\ seqnoMap[ev.mut.vbno] > ev.prevSeqno


(***************************************************************************)
(* The seqnos of a checkpoint document (SpecCheckpoint)                    *)
(***************************************************************************)

\* the seqnos of the document saveCheckpoint has built, one per vbucket
SeqnosOf(doc) == [v \in Vbnos |-> doc[v].Seqno]

\* C29: the seqnos of a checkpoint document are the whole seqnoMap as it was at
\* one instant during the save.
C29_AtomicSnapshot ==
    cpPc \in {"write", "file"} => SeqnosOf(cpDoc) \in cpInstants


(***************************************************************************)
(* Enqueueing after Stop (SpecHandler)                                     *)
(***************************************************************************)

\* C30: once finChan is closed no mutation is appended to dataChan: a
\* callback that starts after Stop drops its event.
C30_NoEnqueueAfterStop ==
    [][dhFin => Len(dataChan') <= Len(dataChan)]_vars


(***************************************************************************)
(* The recorded seqno and the end seqno                                    *)
(***************************************************************************)

\* C39: in seqno mode, with no old checkpoint loaded, seqnoMap[v] <= endSeqno[v]
\* holds for every vbucket v in every reachable state, whatever seqnos the stream
\* delivers.
C39_SeqnoWithinEnd ==
    (completeBySeqno /\ oldCheckpointFile = NoFile /\ cmState = "started")
        => \A v \in Vbnos : seqnoMap[v] <= endSeqnoMap[v]

\* C39's case: the stream has delivered a seqno beyond the end seqno of a vbucket
\* whose recorded seqno has reached the end seqno
C39_Witness ==
    /\ completeBySeqno /\ oldCheckpointFile = NoFile /\ cmState = "started"
    /\ ev.handled /\ ev.mut.seqno > endSeqnoMap[ev.mut.vbno]
    /\ seqnoMap[ev.mut.vbno] = endSeqnoMap[ev.mut.vbno]
    /\ endSeqnoMap[ev.mut.vbno] > 0


(***************************************************************************)
(* The filter pool (SpecPool)                                              *)
(***************************************************************************)

\* FilterUprEvent whose receive leaves the token on the channel
FilterUprEventPeek(c) ==
    /\ \/ /\ calls[c].pc = "idle"
          /\ calls' = [calls EXCEPT ![c].pc = "receive"]
          /\ UNCHANGED tokenCh
       \/ /\ calls[c].pc = "receive"
          /\ tokenCh # <<>>
          /\ calls' = [calls EXCEPT ![c] = [pc |-> "filter", idxToUse |-> Head(tokenCh)]]
          /\ UNCHANGED tokenCh
       \/ /\ calls[c].pc = "filter"
          /\ calls' = [calls EXCEPT ![c].pc = "defer"]
          /\ UNCHANGED tokenCh
       \/ /\ calls[c].pc = "defer"
          /\ calls' = [calls EXCEPT ![c] = NoCall]
          /\ UNCHANGED tokenCh
    /\ UNCHANGED <<toolVars, differVars, stage1Vars, recordVars, binVars, goVars, runVars>>

\* FilterUprEvent without the deferred send: the token is not returned
FilterUprEventNoDefer(c) ==
    /\ \/ /\ calls[c].pc = "idle"
          /\ calls' = [calls EXCEPT ![c].pc = "receive"]
          /\ UNCHANGED tokenCh
       \/ /\ calls[c].pc = "receive"
          /\ tokenCh # <<>>
          /\ calls' = [calls EXCEPT ![c] = [pc |-> "filter", idxToUse |-> Head(tokenCh)]]
          /\ tokenCh' = Tail(tokenCh)
       \/ /\ calls[c].pc = "filter"
          /\ calls' = [calls EXCEPT ![c] = NoCall]
          /\ UNCHANGED tokenCh
    /\ UNCHANGED <<toolVars, differVars, stage1Vars, recordVars, binVars, goVars, runVars>>

\* FilterPool.FilterUprEvent, one step of caller c:
\*   the call is made;
\*   idxToUse := <-f.tokenCh, which blocks while the channel is empty;
\*   f.filtersList[idxToUse].filter.FilterUprEvent returns or panics;
\*   the deferred f.tokenCh <- idxToUse, which blocks while the channel is full
FilterUprEvent(c) ==
    /\ \/ /\ calls[c].pc = "idle"
          /\ calls' = [calls EXCEPT ![c].pc = "receive"]
          /\ UNCHANGED tokenCh
       \/ /\ calls[c].pc = "receive"
          /\ tokenCh # <<>>
          /\ calls' = [calls EXCEPT ![c] = [pc |-> "filter", idxToUse |-> Head(tokenCh)]]
          /\ tokenCh' = Tail(tokenCh)
       \/ /\ calls[c].pc = "filter"
          /\ calls' = [calls EXCEPT ![c].pc = "defer"]
          /\ UNCHANGED tokenCh
       \/ /\ calls[c].pc = "defer"
          /\ Len(tokenCh) < numOfFilters
          /\ tokenCh' = Append(tokenCh, calls[c].idxToUse)
          /\ calls' = [calls EXCEPT ![c] = NoCall]
    /\ UNCHANGED <<toolVars, differVars, stage1Vars, recordVars, binVars, goVars, runVars>>

NextPool == \E c \in Callers : FilterUprEvent(c)

InitPool == InitStage /\ ~filter /\ completeBySeqno /\ oldCheckpointFile = NoFile

SpecPool == InitPool /\ [][NextPool]_vars

\* the callers that hold filter idx: between the receive and the deferred send
Holders(idx) == {c \in Callers : calls[c].pc \in {"filter", "defer"} /\ calls[c].idxToUse = idx}

\* the callers evaluating on filter idx
Evaluating(idx) == {c \in Callers : calls[c].pc = "filter" /\ calls[c].idxToUse = idx}

\* the callers blocked at the receive
Waiting == {c \in Callers : calls[c].pc = "receive" /\ tokenCh = <<>>}

\* C37: no two concurrent FilterUprEvent calls evaluate on the same filter
\* instance; at most numOfFilters calls evaluate at once, and a further caller
\* waits until a token is returned.
C37_MutualExclusion ==
    /\ \A idx \in 0 .. (numOfFilters - 1) : Cardinality(Evaluating(idx)) <= 1
    /\ Cardinality({c \in Callers : calls[c].pc = "filter"}) <= numOfFilters
    /\ \A c \in Waiting :
           Cardinality({d \in Callers : calls[d].pc \in {"filter", "defer"}}) = numOfFilters

\* C37's case: every filter is evaluating and a further caller waits
C37_Witness ==
    /\ \A idx \in 0 .. (numOfFilters - 1) : Cardinality(Evaluating(idx)) = 1
    /\ Waiting # {}

\* the number of times idx is in the token channel
InChannel(idx) == Cardinality({i \in 1 .. Len(tokenCh) : tokenCh[i] = idx})

\* C38: every index 0 .. numOfFilters-1 is either in the token channel exactly
\* once or held by exactly one in-flight call, never both and never neither;
\* returning a token never blocks; with no call in flight the channel holds all
\* numOfFilters tokens.
C38_TokenConservation ==
    /\ \A idx \in 0 .. (numOfFilters - 1) :
           InChannel(idx) + Cardinality(Holders(idx)) = 1
    /\ \A i \in 1 .. Len(tokenCh) : tokenCh[i] \in 0 .. (numOfFilters - 1)
    /\ \A c \in Callers : calls[c].pc = "defer" => Len(tokenCh) < numOfFilters
    /\ (\A c \in Callers : calls[c].pc \in {"idle", "receive"})
           => Len(tokenCh) = numOfFilters

\* C38's case: a token has been returned behind another one, while a call holds
\* no token and none is in flight
C38_Witness ==
    /\ tokenCh = <<1, 0>>
    /\ \E c \in Callers : calls[c].pc = "receive"


(***************************************************************************)
(* The bin writer byte by byte (SpecBucket)                                *)
(***************************************************************************)

\* the serialized records handed to the Bucket: one to MaxRecordLen bytes
Records == {[i \in 1 .. n |-> c] : n \in 1 .. MaxRecordLen, c \in 1 .. 2}

\* b.data[:b.index]
Buffered(b) == SubSeq(b.data, 1, b.index)

\* copy(b.data[b.index:], item); b.index += len(item): copy stops at the end of
\* the destination
CopyItem(b, item) ==
    [b EXCEPT !.data = [i \in 1 .. Len(b.data) |->
                            IF i > b.index /\ i - b.index <= Len(item)
                            THEN item[i - b.index] ELSE b.data[i]],
              !.index = b.index + Len(item)]

\* Bucket.flushToFile writing the whole array b.data instead of b.data[:b.index]
BucketFlushToFileWholeArray(b) ==
    IF b.closed
    THEN {[bucket |-> b, err |-> TRUE]}
    ELSE {[bucket |-> [b EXCEPT !.file = @ \o b.data, !.index = 0], err |-> FALSE]}
         \cup {[bucket |-> [b EXCEPT !.file = @ \o SubSeq(b.data, 1, numOfBytes)],
                err |-> TRUE] : numOfBytes \in 0 .. (b.index - 1)}

\* Bucket.flushToFile: the outcomes of file.Write(b.data[:b.index]). All bytes
\* written: index = 0 and nil. An error or numOfBytes != b.index: numOfBytes
\* bytes have reached the file, index and buffer are kept, an error is returned.
\* A closed file takes nothing.
BucketFlushToFile(b) ==
    IF b.closed
    THEN {[bucket |-> b, err |-> TRUE]}
    ELSE {[bucket |-> [b EXCEPT !.file = @ \o Buffered(b), !.index = 0], err |-> FALSE]}
         \cup {[bucket |-> [b EXCEPT !.file = @ \o SubSeq(b.data, 1, numOfBytes)],
                err |-> TRUE] : numOfBytes \in 0 .. (b.index - 1)}

\* Bucket.write flushing only once the buffer is full, whatever the item's length
BucketWriteItemLateFlush(b, item) ==
    IF b.index >= BucketBufferBytes
    THEN {IF f.err THEN f ELSE [bucket |-> CopyItem(f.bucket, item), err |-> FALSE] :
              f \in BucketFlushToFile(b)}
    ELSE {[bucket |-> CopyItem(b, item), err |-> FALSE]}

\* Bucket.write: flush when the item does not fit, return the flush's error
\* without copying, else copy the item and advance index
BucketWriteItem(b, item) ==
    IF b.index + Len(item) > BucketBufferBytes
    THEN {IF f.err THEN f ELSE [bucket |-> CopyItem(f.bucket, item), err |-> FALSE] :
              f \in BucketFlushToFile(b)}
    ELSE {[bucket |-> CopyItem(b, item), err |-> FALSE]}

\* Bucket.close: flush, then close the file; both errors are logged only
BucketClose(b) ==
    {[bucket |-> [f.bucket EXCEPT !.closed = TRUE], err |-> f.err] :
         f \in BucketFlushToFile(b)}

\* a call of write on the Bucket
BinWrite ==
    /\ binOps < MaxBucketOps
    /\ \E item \in Records : \E r \in BucketWriteItem(bin, item) :
        /\ bin' = r.bucket
        /\ binWritten' = IF r.err THEN binWritten ELSE Append(binWritten, item)
        /\ binLast' = [op |-> "write", item |-> item, err |-> r.err, before |-> bin]
        /\ binFlushFailed' = (binFlushFailed \/ r.err)
    /\ binOps' = binOps + 1
    /\ UNCHANGED <<toolVars, differVars, stage1Vars, recordVars, poolVars, goVars, runVars>>

\* cleanup's call of close on the Bucket
BinClose ==
    /\ binOps < MaxBucketOps
    /\ ~bin.closed
    /\ \E r \in BucketClose(bin) :
        /\ bin' = r.bucket
        /\ binLast' = [op |-> "close", item |-> <<>>, err |-> r.err, before |-> bin]
        /\ binFlushFailed' = (binFlushFailed \/ r.err)
    /\ binOps' = binOps + 1
    /\ UNCHANGED <<toolVars, differVars, stage1Vars, recordVars, poolVars, goVars, runVars, binWritten>>

NextBucket == BinWrite \/ BinClose

SpecBucket == InitPool /\ [][NextBucket]_vars

RECURSIVE Concat(_)
\* the concatenation of a sequence of records
Concat(items) == IF items = <<>> THEN <<>> ELSE Head(items) \o Concat(Tail(items))

\* C34: after any sequence of successful write calls followed by close, the bytes
\* delivered to the bin file are exactly the concatenation of all written records
\* in write order, each exactly once, and every flush ends on a record boundary:
\* the file always holds the first k records whole and the buffer the others.
C34_ContentConservation ==
    ~binFlushFailed =>
        /\ \E k \in 0 .. Len(binWritten) :
               /\ bin.file = Concat(SubSeq(binWritten, 1, k))
               /\ Buffered(bin) = Concat(SubSeq(binWritten, k + 1, Len(binWritten)))
        /\ binLast.op = "close" => (bin.file = Concat(binWritten) /\ bin.index = 0)

\* C34's case: three records were written, not all of them fitting the buffer
\* at once, and the Bucket was closed
C34_Witness ==
    /\ binLast.op = "close" /\ ~binFlushFailed
    /\ Len(binWritten) = 3
    /\ Len(bin.file) > BucketBufferBytes

\* C35: for any sequence of write, flush and close with records no longer than
\* the capacity C, 0 <= index <= C holds after every operation, and a record that
\* write accepts is in the buffer in full.
C35_BufferBound ==
    /\ bin.index \in 0 .. BucketBufferBytes
    /\ Len(bin.data) = BucketBufferBytes
    /\ (binLast.op = "write" /\ ~binLast.err) =>
           /\ bin.index >= Len(binLast.item)
           /\ SubSeq(bin.data, bin.index - Len(binLast.item) + 1, bin.index) = binLast.item

\* C35's case: a record of the greatest length was written into a buffer that
\* had no room for it, after a flush
C35_Witness ==
    /\ binLast.op = "write" /\ ~binLast.err
    /\ Len(binLast.item) = MaxRecordLen
    /\ binLast.before.index + Len(binLast.item) > BucketBufferBytes
    /\ bin.index = MaxRecordLen

\* C36: when the flush inside Bucket.write fails, write returns the error, the
\* new record is not copied, index and the buffered bytes are unchanged, and the
\* bytes the failed flush has appended to the file are not appended a second
\* time by a later flush: the file stays a prefix of the written records.
C36_FailedFlushNotRepeated ==
    /\ (binLast.op = "write" /\ binLast.err) =>
           /\ bin.index = binLast.before.index
           /\ bin.data = binLast.before.data
    /\ IsPrefix(bin.file, Concat(binWritten))


(***************************************************************************)
(* The stream callbacks and the handler's queue (SpecQueue)                *)
(***************************************************************************)

\* DcpHandler.Mutation / Deletion / Expiration up to the call of writeToDataChan
MutationCall(vbno) ==
    /\ Running /\ streamOpen[vbno]
    /\ pending[vbno] = NoMutation
    /\ \E seqno \in (streamSeqno[vbno] + 1) .. streamSnapEnd[vbno] :
          /\ pending' = [pending EXCEPT ![vbno] =
                             [vbno |-> vbno, seqno |-> seqno, key |-> KeyAt(vbno, seqno)]]
          /\ streamSeqno' = [streamSeqno EXCEPT ![vbno] = seqno]
    /\ UNCHANGED <<toolVars, differVars, sideVars, cfgVars, oldCheckpointFile, cmVars, streamOpen,
                   streamSnapEnd, handlerVars, vbCompleted, completedCount, saverVars,
                   mainVars, driverState, resumedFrom, closing, exited>>

\* the select of writeToDataChan takes a case and the callback returns
WriteToDataChanReturn(vbno) ==
    /\ pending[vbno] # NoMutation
    /\ writeToDataChan(pending[vbno])
    /\ pending' = [pending EXCEPT ![vbno] = NoMutation]
    /\ UNCHANGED <<toolVars, differVars, sideVars, cfgVars, oldCheckpointFile, cmVars, streamVars,
                   hpc, ev, bucketMap, buckets, dhFin, processed, vbCompleted,
                   completedCount, saverVars, mainVars, driverState, resumedFrom, closing, exited>>

NextQueue ==
    \/ Start
    \/ \E vbno \in Vbnos : SnapshotMarker(vbno)
    \/ \E vbno \in Vbnos : MutationCall(vbno)
    \/ \E vbno \in Vbnos : WriteToDataChanReturn(vbno)
    \/ TakeMutation
    \/ ProcessDataExit
    \/ HandleMutation
    \/ BucketWrite
    \/ Wait
    \/ StopHandlers

InitQueue == InitStage /\ ~filter /\ oldCheckpointFile = NoFile

\* a goroutine whose select has a ready case takes one
SpecQueue ==
    /\ InitQueue /\ [][NextQueue]_vars
    /\ \A vbno \in Vbnos : WF_vars(WriteToDataChanReturn(vbno))

\* the stream callback of vbno is parked in the select of writeToDataChan
Blocked(vbno) == pending[vbno] # NoMutation /\ ~ENABLED WriteToDataChanReturn(vbno)

\* C31: the handler queue never holds more than DataChanSize mutations; an
\* enqueueing callback is blocked only while the queue is full and the handler
\* is not stopped; once the handler is stopped every enqueue call returns.
C31_BoundedQueue ==
    /\ [](Len(dataChan) <= DataChanSize)
    /\ [](\A vbno \in Vbnos :
             Blocked(vbno) => (Len(dataChan) = DataChanSize /\ ~dhFin))
    /\ \A vbno \in Vbnos :
           (pending[vbno] # NoMutation /\ dhFin) ~> (pending[vbno] = NoMutation)

\* C31's case: the handler was stopped and its goroutine has exited while a
\* callback was parked on the full queue
C31_Witness ==
    /\ dhFin /\ hpc = "exited"
    /\ Len(dataChan) = DataChanSize
    /\ \E vbno \in Vbnos : pending[vbno] # NoMutation


(***************************************************************************)
(* DcpHandler.Stop against the handler goroutine (SpecCleanup)             *)
(***************************************************************************)

\* processMutation calls bucket.write: the handler goroutine is inside write
BucketWriteEnter ==
    /\ hpc = "write"
    /\ hpc' = "writing"
    /\ UNCHANGED <<toolVars, differVars, unitVars, cfgVars, oldCheckpointFile, cmVars, streamVars,
                   dataChan, ev, bucketMap, buckets, dhFin, processed, vbCompleted,
                   completedCount, saverVars, mainVars, driverState, resumedFrom>>

\* bucket.write returns to processMutation.  When cleanup is inside close on
\* the same Bucket the two calls race on index, data and the file; the file ends
\* with or without the record, as if write had come first or last.
BucketWriteReturn ==
    /\ hpc = "writing"
    /\ LET mut == ev.mut
           index == GetBucketIndexFromKey(mut.key, NumberOfBins)
           b == buckets[mut.vbno][index]
       IN  /\ bucketMap' = [bucketMap EXCEPT ![mut.vbno][index] = @ \cup {mut}]
           /\ IF Overflows(b, mut) /\ b.closed
              THEN /\ buckets' = buckets
                   /\ ev' = [ev EXCEPT !.binned = TRUE, !.writeErr = TRUE]
              ELSE /\ buckets' = [buckets EXCEPT ![mut.vbno][index] = write(b, mut)]
                   /\ ev' = [ev EXCEPT !.binned = TRUE]
    /\ hpc' = "idle"
    /\ UNCHANGED <<toolVars, differVars, unitVars, cfgVars, oldCheckpointFile, cmVars, streamVars,
                   dataChan, dhFin, processed, vbCompleted, completedCount, saverVars,
                   mainVars, driverState, resumedFrom>>

\* the Bucket cleanup closes after the one of vbno and i, in the order of its loops
NextToClose(vbno, i) ==
    IF i + 1 < NumberOfBins THEN <<vbno, i + 1>>
    ELSE IF vbno + 1 < NumberOfVbuckets THEN <<vbno + 1, 0>>
    ELSE Closed

\* DcpHandler.Stop: close(dh.finChan); the wait for processData is commented
\* out; cleanup is entered and reaches the close of the first Bucket
StopEnter ==
    /\ Alive /\ driverState = "running" /\ closing = NotClosing
    /\ \/ mainPc \in {"error", "timer"}
       \/ Running /\ \A v \in Vbnos : vbCompleted[v]
    /\ dhFin' = TRUE
    /\ closing' = <<0, 0>>
    /\ UNCHANGED <<toolVars, differVars, sideVars, pending, exited, cfgVars, oldCheckpointFile, cmVars,
                   streamVars, dataChan, hpc, ev, bucketMap, buckets, processed, vbCompleted,
                   completedCount, saverVars, mainVars, driverState, resumedFrom>>

\* cleanup: bucket.close() returns and the loop goes on; Stop returns after the
\* last Bucket
CloseReturn ==
    /\ closing \notin {NotClosing, Closed}
    /\ LET vbno == closing[1]
           i == closing[2]
       IN  /\ buckets' = [buckets EXCEPT ![vbno][i] = close(@)]
           /\ closing' = NextToClose(vbno, i)
           /\ driverState' = IF NextToClose(vbno, i) = Closed THEN "handlersStopped"
                             ELSE driverState
    /\ UNCHANGED <<toolVars, differVars, sideVars, pending, exited, cfgVars, oldCheckpointFile, cmVars,
                   streamVars, dataChan, hpc, ev, bucketMap, dhFin, processed, vbCompleted,
                   completedCount, saverVars, mainVars, resumedFrom>>

NextCleanup ==
    \/ Start
    \/ \E vbno \in Vbnos : SnapshotMarker(vbno)
    \/ \E vbno \in Vbnos : Mutation(vbno)
    \/ TakeMutation
    \/ ProcessDataExit
    \/ HandleMutation
    \/ BucketWriteEnter
    \/ BucketWriteReturn
    \/ Wait
    \/ StopEnter
    \/ CloseReturn

SpecCleanup == InitQueue /\ [][NextCleanup]_vars

\* the Bucket the handler goroutine is writing to
WritingTo == <<ev.mut.vbno, GetBucketIndexFromKey(ev.mut.key, NumberOfBins)>>

\* C32: the bin writer is single-writer: in no reachable state do two goroutines
\* operate on the same Bucket at the same time; the close of DcpHandler.Stop's
\* cleanup never overlaps with the handler goroutine's write on the same Bucket.
C32_SingleWriter == ~(hpc = "writing" /\ closing = WritingTo)


(***************************************************************************)
(* MutationDiffer.Run and its workers (SpecRun)                            *)
(***************************************************************************)

\* Run: loadDiffKeys or initialize returns an error
RunFails ==
    /\ runPc = "start"
    /\ runPc' = "failed"
    /\ UNCHANGED <<toolVars, differVars, stage1Vars, recordVars, poolVars, binVars, goVars,
                   workers, waitGroup, merged, reportOf>>

\* Run: the keys are distributed, a worker with keys is counted in waitGroup and
\* started, a worker without is skipped; the started worker issues its gets
RunStartsWorkers ==
    /\ runPc = "start"
    /\ \E load \in [Workers -> 0 .. NumberOfKeys] :
          /\ workers' = [w \in Workers |->
                            IF load[w] = 0 THEN [NoWorker EXCEPT !.pc = "skipped"]
                            ELSE [NoWorker EXCEPT !.pc = "waiting", !.keys = load[w]]]
          /\ waitGroup' = Cardinality({w \in Workers : load[w] # 0})
    /\ runPc' = "wait"
    /\ UNCHANGED <<toolVars, differVars, stage1Vars, recordVars, poolVars, binVars, goVars,
                   merged, reportOf>>

\* getCallbackFunc of one key of worker w: the atomic add of its side's counter
WorkerCallback(w, isSource) ==
    /\ workers[w].pc \in {"waiting", "diff", "merged", "done"}
    /\ IF isSource
       THEN /\ workers[w].sourceResultCount < workers[w].keys
            /\ workers' = [workers EXCEPT ![w].sourceResultCount = @ + 1]
       ELSE /\ workers[w].targetResultCount < workers[w].keys
            /\ workers' = [workers EXCEPT ![w].targetResultCount = @ + 1]
    /\ UNCHANGED <<toolVars, differVars, stage1Vars, recordVars, poolVars, binVars, goVars,
                   waitGroup, runPc, merged, reportOf>>

\* getResults of worker w, case <-ticker.C with both counters at len(dw.keys)
WorkerTicker(w) ==
    /\ workers[w].pc = "waiting"
    /\ workers[w].sourceResultCount = workers[w].keys
    /\ workers[w].targetResultCount = workers[w].keys
    /\ workers' = [workers EXCEPT ![w].pc = "diff"]
    /\ UNCHANGED <<toolVars, differVars, stage1Vars, recordVars, poolVars, binVars, goVars,
                   waitGroup, runPc, merged, reportOf>>

\* getResults without the case of the timer
WorkerTimerNever(w) ==
    /\ FALSE
    /\ UNCHANGED vars

\* getResults of worker w, case <-timer.C
WorkerTimer(w) ==
    /\ workers[w].pc = "waiting"
    /\ workers' = [workers EXCEPT ![w].pc = "diff"]
    /\ UNCHANGED <<toolVars, differVars, stage1Vars, recordVars, poolVars, binVars, goVars,
                   waitGroup, runPc, merged, reportOf>>

\* DifferWorker.diff of worker w, ending with addDiff
WorkerDiff(w) ==
    /\ workers[w].pc = "diff"
    /\ merged' = merged \cup {w}
    /\ workers' = [workers EXCEPT ![w].pc = "merged"]
    /\ UNCHANGED <<toolVars, differVars, stage1Vars, recordVars, poolVars, binVars, goVars,
                   waitGroup, runPc, reportOf>>

\* DifferWorker.run of worker w returns: the deferred waitGroup.Done()
WorkerDone(w) ==
    /\ workers[w].pc = "merged"
    /\ waitGroup' = waitGroup - 1
    /\ workers' = [workers EXCEPT ![w].pc = "done"]
    /\ UNCHANGED <<toolVars, differVars, stage1Vars, recordVars, poolVars, binVars, goVars,
                   runPc, merged, reportOf>>

\* Run: waitGroup.Wait() returns, writeDiff, return nil
RunWritesDiff ==
    /\ runPc = "wait"
    /\ waitGroup = 0
    /\ reportOf' = merged
    /\ runPc' = "returned"
    /\ UNCHANGED <<toolVars, differVars, stage1Vars, recordVars, poolVars, binVars, goVars,
                   workers, waitGroup, merged>>

\* a step of worker w other than its callbacks
WorkerStep(w) == WorkerTicker(w) \/ WorkerTimer(w) \/ WorkerDiff(w) \/ WorkerDone(w)

NextRun ==
    \/ RunFails
    \/ RunStartsWorkers
    \/ \E w \in Workers, isSource \in BOOLEAN : WorkerCallback(w, isSource)
    \/ \E w \in Workers : WorkerTicker(w)
    \/ \E w \in Workers : WorkerTimer(w)
    \/ \E w \in Workers : WorkerDiff(w)
    \/ \E w \in Workers : WorkerDone(w)
    \/ RunWritesDiff

\* the timer of a waiting worker fires and every goroutine that can run does;
\* nothing makes a callback fire
SpecRun ==
    /\ InitPool /\ [][NextRun]_vars
    /\ \A w \in Workers : WF_vars(WorkerStep(w))
    /\ WF_vars(RunWritesDiff)

\* the workers Run has started
Started == {w \in Workers : workers[w].keys > 0}

\* C33: a waiting worker goes on to its classification when both counters equal
\* its key count or its timer fires; every worker and Run terminate, also when
\* callbacks never fire; the report is written after all workers have merged.
C33_RunTerminates ==
    /\ \A w \in Workers : (workers[w].pc = "waiting") ~> (workers[w].pc = "done")
    /\ (runPc = "wait") ~> (runPc = "returned")
    /\ [](runPc = "returned" => (reportOf = Started /\ merged = Started))

\* C33's case: Run has returned a report of two workers, one of which got no
\* callback at all and one of which got all of them
C33_Witness ==
    /\ runPc = "returned" /\ reportOf = Workers
    /\ \E w \in Workers : workers[w].sourceResultCount = 0 /\ workers[w].targetResultCount = 0
    /\ \E w \in Workers : /\ workers[w].sourceResultCount = workers[w].keys
                          /\ workers[w].targetResultCount = workers[w].keys


(***************************************************************************)
(* The goroutines after Stop (SpecExit)                                    *)
(***************************************************************************)

\* periodicalCheckpointing whose select takes the ticker after it has returned
SaveBeginStoppedAfterExit ==
    /\ Running /\ driverState = "stopped"
    /\ cpPc = "idle"
    /\ periodicFile' = NoFile
    /\ ReadSeqno(EmptyMap, EmptyMap, 0)
    /\ cpInstants' = {seqnoMap}
    /\ UNCHANGED <<toolVars, differVars, unitVars, cfgVars, oldCheckpointFile, cmVars, streamVars,
                   handlerVars, vbCompleted, completedCount, savedDoc, checkpointFile,
                   cpPrevFile, mainVars, driverState, resumedFrom>>

\* periodicalCheckpointing, case <-ticker.C while cm.finChan is closed already:
\* the select may take either case, and checkpointOnce(iter) begins
SaveBeginStopped ==
    /\ Running /\ driverState = "stopped"
    /\ "periodicalCheckpointing" \notin exited
    /\ cpPc = "idle"
    /\ periodicFile' = NoFile
    /\ ReadSeqno(EmptyMap, EmptyMap, 0)
    /\ cpInstants' = {seqnoMap}
    /\ UNCHANGED <<toolVars, differVars, unitVars, cfgVars, oldCheckpointFile, cmVars, streamVars,
                   handlerVars, vbCompleted, completedCount, savedDoc, checkpointFile,
                   cpPrevFile, mainVars, driverState, resumedFrom>>

\* periodicalCheckpointing, case <-cm.finChan: return
PeriodicExit ==
    /\ Running /\ driverState = "stopped"
    /\ "periodicalCheckpointing" \notin exited
    /\ cpPc = "idle"
    /\ exited' = exited \cup {"periodicalCheckpointing"}
    /\ UNCHANGED <<toolVars, differVars, sideVars, pending, closing, stage1Vars>>

\* reportStatus, case <-cm.finChan: return.  The case of ticker.C prints the sum
\* of the seqnos and changes nothing.
ReporterExit ==
    /\ Running /\ driverState = "stopped"
    /\ "reportStatus" \notin exited
    /\ exited' = exited \cup {"reportStatus"}
    /\ UNCHANGED <<toolVars, differVars, sideVars, pending, closing, stage1Vars>>

NextExit ==
    \/ Start
    \/ \E vbno \in Vbnos : SnapshotMarker(vbno)
    \/ \E vbno \in Vbnos : Mutation(vbno)
    \/ TakeMutation
    \/ ProcessDataExit
    \/ HandleMutation
    \/ BucketWrite
    \/ SaveBeginStopped
    \/ SaveReadSeqno
    \/ SaveReadSnapshot
    \/ SaveOpen
    \/ SaveWrite
    \/ StopHandlers
    \/ CheckpointManagerStop
    \/ PeriodicExit
    \/ ReporterExit

\* a goroutine that can run does; a select that is reached again and again with
\* the case of finChan ready takes that case in the end
InitExit == InitQueue /\ completeBySeqno

SpecExit ==
    /\ InitExit /\ [][NextExit]_vars
    /\ WF_vars(HandleMutation \/ BucketWrite)
    /\ WF_vars(SaveReadSeqno \/ SaveReadSnapshot \/ SaveOpen \/ SaveWrite)
    /\ SF_vars(ProcessDataExit)
    /\ SF_vars(PeriodicExit)
    /\ SF_vars(ReporterExit)

====
